---- MODULE Spec2Model ----
(***************************************************************************)
(* Flight Price Monitor: the snapshot store and the alert engine of        *)
(* database.py, driven by the fetch cycle of scheduler.py and the HTTP     *)
(* handlers of main.py.                                                    *)
(*                                                                         *)
(* Tables are sequences of rows in insertion order; a row's id is its      *)
(* position (INTEGER PRIMARY KEY AUTOINCREMENT).  Timestamps are kept as   *)
(* the strings the code stores and compares, a string being the sequence   *)
(* of its fields and separator characters.                                 *)
(***************************************************************************)
EXTENDS Integers, Sequences, FiniteSets, TLC

VARIABLES
    price_snapshots,  \* table price_snapshots, in insertion order
    price_alerts,     \* table price_alerts, in insertion order
    now,              \* the system clock: [day, sec]
    response,         \* what the last database call returned
    cursor,           \* an executed latest/compare query not yet fetched
    pc,               \* per invocation: position in check_and_trigger_alerts
    alerts,           \* per invocation: the rows get_active_alerts returned, still to visit
    alert,            \* per invocation: the loop variable (the id of the row)
    row,              \* per invocation: the row of the last SELECT MIN
    triggered,        \* per invocation: the list being returned
    pending,          \* per invocation: uncommitted UPDATEs of its connection
    db_writer,        \* the connection holding SQLite's write lock
    reported,         \* the alerts the calls that have returned reported
    known,            \* per invocation: the value of reported when its call began
    amadeus_client,   \* the AmadeusClient of scheduler.py: its cached token
    cycle,            \* the locals and the position of one fetch_all_prices call
    outbox,           \* the emails handed to Resend, in order
    email_service,    \* email_service.py: resend.api_key, and its last call
    scheduler,        \* the AsyncIOScheduler of scheduler.py and its job
    suspended         \* a second fetch_all_prices call, waiting at an await

vars == <<price_snapshots, price_alerts, now, response, cursor, pc, alerts,
          alert, row, triggered, pending, db_writer, reported, known,
          amadeus_client, cycle, outbox, email_service, scheduler,
          suspended>>

storeVars == <<price_snapshots, now, response, cursor>>
alertVars == <<price_alerts, pc, alerts, alert, row, triggered, pending,
               db_writer, reported, known>>
callVars == <<pc, alerts, alert, row, triggered, pending, db_writer, reported, known>>
mailVars == <<outbox, email_service>>
appVars == <<scheduler, suspended>>
cycleVars == <<amadeus_client, cycle, mailVars, appVars>>

----------------------------------------------------------------------------
(* Bounds of the model.                                                    *)

MaxSnapshots == 2   \* rows of price_snapshots
MaxAlerts == 1      \* rows of price_alerts
MaxEmails == 2      \* emails in outbox
MaxTriggers == 2    \* calls of POST /api/fetch-now
MaxFaults == 1      \* pairs that fail in a cycle
MaxSwitches == 2    \* times a running cycle gives way to the other one
MaxDay == 1         \* the clock runs over days 0..MaxDay
MaxSec == 1         \* and seconds of the day 0..MaxSec

----------------------------------------------------------------------------
(* Catalogs and inputs.                                                    *)

\* routes.id of the seeded routes (AUTOINCREMENT ids start at 1)
RouteIds == {1, 2}

\* route ids a client can name: the seeded ones and one no seeded route has
ClientRouteIds == RouteIds \cup {99}

\* airlines.iata_code; every code an offer can carry is a seeded airline
AirlineCodes == {"AA", "BA"}

\* a falsy route_id argument: None (or 0), which "if route_id:" reads as absent
NoRoute == 0

\* a falsy airline_code: None (or ""), an absent filter, a NULL column
NoAirline == ""

\* prices of offers: 0 is a live offer without price.total
Prices == {0, 380, 400}

\* target prices of alerts
Targets == {380, 400}

\* the days argument of get_price_history (the endpoint requires 1..365)
DaysArgs == {1}

NULL == <<>>

\* lowest_price when MIN ranges over no row (SQL NULL, Python None)
NoPrice == -1

\* no connection holds the write lock
NoWriter == "none"

\* the loop variable before the first turn
NoAlert == 0

----------------------------------------------------------------------------
(* Timestamps as strings.                                                  *)

SPACE == 32   \* ' '
LETTER_T == 84   \* 'T'
DOT == 46   \* '.'

\* SQLite datetime('now'): 'YYYY-MM-DD HH:MM:SS'
datetime_now == <<now.day, SPACE, now.sec>>

\* Python (datetime.utcnow() - timedelta(days)).isoformat():
\* 'YYYY-MM-DDTHH:MM:SS', followed by '.ffffff' when the microsecond is not 0
isoformat(day, sec, micro) ==
    <<day, LETTER_T, sec>> \o (IF micro = 0 THEN <<>> ELSE <<DOT, micro>>)

\* s <= t for TEXT values under SQLite's BINARY collation (memcmp, then length)
RECURSIVE TextLeq(_, _)
TextLeq(s, t) ==
    IF s = <<>> THEN TRUE
    ELSE IF t = <<>> THEN FALSE
    ELSE IF Head(s) # Head(t) THEN Head(s) < Head(t)
    ELSE TextLeq(Tail(s), Tail(t))

----------------------------------------------------------------------------
(* Result sets.                                                            *)

RECURSIVE Perms(_)
Perms(S) ==
    IF S = {} THEN {<<>>}
    ELSE UNION {{<<x>> \o s : s \in Perms(S \ {x})} : x \in S}

\* r1 may come before r2 under the ordering term of an ORDER BY clause
InOrder(term, r1, r2) ==
    CASE term = "price ASC" -> r1.price <= r2.price
      [] term = "fetched_at ASC" -> TextLeq(r1.fetched_at, r2.fetched_at)
      [] term = "created_at DESC" -> TextLeq(r2.created_at, r1.created_at)

\* ORDER BY: every sequence of the rows S in which the key does not decrease;
\* SQL leaves the order of rows with equal keys to the query plan
OrderBy(S, term) ==
    {s \in Perms(S) : \A i \in 1..(Len(s) - 1) : InOrder(term, s[i], s[i + 1])}

Range(s) == {s[i] : i \in 1..Len(s)}

SetMax(S) == CHOOSE x \in S : \A y \in S : y <= x
SetMin(S) == CHOOSE x \in S : \A y \in S : x <= y

----------------------------------------------------------------------------
(* The snapshot store.                                                     *)

Snapshots == Range(price_snapshots)

GroupOf(ps) == <<ps.route_id, ps.airline_code>>

\* as MaxIdPerGroup, with MIN(id) for MAX(id)
MinIdPerGroup(snaps) ==
    {SetMin({q.id : q \in {x \in snaps : GroupOf(x) = g}}) :
        g \in {GroupOf(x) : x \in snaps}}

\* SELECT MAX(id) FROM price_snapshots GROUP BY route_id, airline_code
MaxIdPerGroup(snaps) ==
    {SetMax({q.id : q \in {x \in snaps : GroupOf(x) = g}}) :
        g \in {GroupOf(x) : x \in snaps}}

\* as MaxIdPerAirline, with the subquery's WHERE route_id = ? left out
MaxIdPerAirlineAnyRoute(snaps, route_id) ==
    {SetMax({q.id : q \in {x \in snaps : x.airline_code = a}}) :
        a \in {x.airline_code : x \in snaps}}

\* SELECT MAX(id) FROM price_snapshots WHERE route_id = ? GROUP BY airline_code
MaxIdPerAirline(snaps, route_id) ==
    LET onRoute == {x \in snaps : x.route_id = route_id}
    IN  {SetMax({q.id : q \in {x \in onRoute : x.airline_code = a}}) :
            a \in {x.airline_code : x \in onRoute}}

\* JOIN routes r ON ps.route_id = r.id JOIN airlines a ON ps.airline_code = a.iata_code
Joined(ps) == ps.route_id \in RouteIds /\ ps.airline_code \in AirlineCodes

\* the rows of get_latest_prices' query, before ORDER BY
LatestRows(snaps, route_id, airline_code) ==
    {ps \in snaps :
        /\ Joined(ps)
        /\ ps.id \in MaxIdPerGroup(snaps)
        /\ (route_id # NoRoute => ps.route_id = route_id)
        /\ (airline_code # NoAirline => ps.airline_code = airline_code)}

\* every result get_latest_prices can return on the table snaps
get_latest_prices(snaps, route_id, airline_code) ==
    OrderBy(LatestRows(snaps, route_id, airline_code), "price ASC")

\* the columns get_price_comparison selects
ComparisonColumns(ps) ==
    [airline_code |-> ps.airline_code, price |-> ps.price,
     fetched_at |-> ps.fetched_at]

\* the rows of get_price_comparison's query, before ORDER BY
ComparisonRows(snaps, route_id) ==
    {ps \in snaps :
        /\ Joined(ps)
        /\ ps.route_id = route_id
        /\ ps.id \in MaxIdPerAirline(snaps, route_id)}

\* every result get_price_comparison can return on the table snaps
get_price_comparison(snaps, route_id) ==
    OrderBy({ComparisonColumns(ps) : ps \in ComparisonRows(snaps, route_id)}, "price ASC")

\* the rows of get_price_history's query, before ORDER BY: fetched_at >= cutoff
\* compares the stored text with the text of the cutoff
HistoryRows(snaps, route_id, airline_code, cutoff) ==
    {ps \in snaps :
        /\ ps.airline_code \in AirlineCodes
        /\ ps.route_id = route_id
        /\ TextLeq(cutoff, ps.fetched_at)
        /\ (airline_code # NoAirline => ps.airline_code = airline_code)}

\* every result get_price_history can return on the table snaps
get_price_history(snaps, route_id, airline_code, days, micro) ==
    OrderBy(HistoryRows(snaps, route_id, airline_code,
                        isoformat(now.day - days, now.sec, micro)),
            "fetched_at ASC")

\* the row INSERT INTO price_snapshots adds; fetched_at defaults to datetime('now')
NewSnapshot(route_id, airline_code, price) ==
    [id |-> Len(price_snapshots) + 1, route_id |-> route_id,
     airline_code |-> airline_code, price |-> price,
     fetched_at |-> datetime_now]

\* as Inserted, for an INSERT that keeps one row per (route, airline, price)
InsertedUnlessSame(route_id, airline_code, price) ==
    IF \E ps \in Range(price_snapshots) :
          /\ ps.route_id = route_id
          /\ ps.airline_code = airline_code
          /\ ps.price = price
    THEN price_snapshots
    ELSE Append(price_snapshots, NewSnapshot(route_id, airline_code, price))

\* the table after INSERT INTO price_snapshots
Inserted(route_id, airline_code, price) ==
    Append(price_snapshots, NewSnapshot(route_id, airline_code, price))

\* save_price_snapshot: INSERT and commit
save_price_snapshot(route_id, airline_code, price) ==
    /\ Len(price_snapshots) < MaxSnapshots
    /\ db_writer = NoWriter
    /\ price_snapshots' = Inserted(route_id, airline_code, price)
    /\ response' = [op |-> "append", id |-> Len(price_snapshots) + 1, at |-> now]
    /\ UNCHANGED <<now, cursor>>
    /\ UNCHANGED alertVars

\* GET /api/prices/latest
latest(route_id, airline_code) ==
    /\ \E rows \in get_latest_prices(Snapshots, route_id, airline_code) :
          response' = [op |-> "latest", route_id |-> route_id,
                       airline_code |-> airline_code, rows |-> rows]
    /\ UNCHANGED <<price_snapshots, now, cursor>>
    /\ UNCHANGED alertVars

\* GET /api/prices/compare/{route_id}
compareLatest(route_id) ==
    /\ \E rows \in get_price_comparison(Snapshots, route_id) :
          response' = [op |-> "compare", route_id |-> route_id, rows |-> rows]
    /\ UNCHANGED <<price_snapshots, now, cursor>>
    /\ UNCHANGED alertVars

\* GET /api/prices/history/{route_id}
history(route_id, airline_code, days) ==
    /\ \E micro \in {0, 1} :
       \E rows \in get_price_history(Snapshots, route_id, airline_code, days, micro) :
          response' = [op |-> "history", route_id |-> route_id,
                       airline_code |-> airline_code, days |-> days,
                       at |-> now, rows |-> rows,
                       appended |-> IF response.op = "append" /\ response.at = now
                                    THEN response.id ELSE 0]
    /\ UNCHANGED <<price_snapshots, now, cursor>>
    /\ UNCHANGED alertVars

\* the clock: a second passes
TickSec ==
    /\ now.sec < MaxSec
    /\ now' = [now EXCEPT !.sec = @ + 1]
    /\ UNCHANGED <<price_snapshots, response, cursor>>
    /\ UNCHANGED alertVars

\* the clock: midnight passes
TickDay ==
    /\ now.day < MaxDay
    /\ \E s \in 0..MaxSec : now' = [day |-> now.day + 1, sec |-> s]
    /\ UNCHANGED <<price_snapshots, response, cursor>>
    /\ UNCHANGED alertVars

Procs == {"hourly_price_fetch", "trigger_fetch"}

\* token_expires_at = None
NoTime == [day |-> -1, sec |-> 0]

\* the access token a handshake returned, named by when it was issued and
\* the lifetime (expires_in, in seconds) the provider gave it
Token(issued_at, expires_in) == [issued_at |-> issued_at, expires_in |-> expires_in]

\* access_token = None: no token was ever obtained
NoToken == Token(NoTime, 0)

\* AmadeusClient.__init__ under the environment's USE_MOCK_DATA and
\* AMADEUS_API_KEY: nothing cached
AmadeusClient(use_mock, api_key) ==
    [use_mock |-> use_mock, api_key |-> api_key,
     access_token |-> NoToken, token_expires_at |-> NoTime]

\* who calls fetch_all_prices: the task of the startup, the job of the
\* scheduler, the handler of POST /api/fetch-now
Callers == {"initial_fetch", "hourly_price_fetch", "trigger_fetch"}

\* a scheduler without a job
NoJob == [id |-> "none", next_run_time |-> NoTime]

\* scheduler = AsyncIOScheduler(): not running, no job; invoked counts the
\* calls of fetch_all_prices by caller
AsyncIOScheduler ==
    [running |-> FALSE, job |-> NoJob, started_at |-> NoTime,
     invoked |-> [c \in Callers |-> 0]]

\* no function of email_service.py was called yet
NoSend == [call |-> "none"]

\* no fetch_all_prices call is under way
NoCycle == [at |-> "idle"]

\* after init_db and the import of scheduler.py with the default environment
\* (USE_MOCK_DATA unset reads "true", no API key): both tables empty, nothing
\* running, nothing sent
Init ==
    /\ price_snapshots = <<>>
    /\ price_alerts = <<>>
    /\ now = [day |-> 0, sec |-> 0]
    /\ response = [op |-> "none"]
    /\ cursor = NULL
    /\ pc = [p \in Procs |-> "idle"]
    /\ alerts = [p \in Procs |-> <<>>]
    /\ alert = [p \in Procs |-> NoAlert]
    /\ row = [p \in Procs |-> NULL]
    /\ triggered = [p \in Procs |-> <<>>]
    /\ pending = [p \in Procs |-> {}]
    /\ db_writer = NoWriter
    /\ reported = {}
    /\ known = [p \in Procs |-> {}]
    /\ amadeus_client = AmadeusClient(TRUE, "")
    /\ cycle = NoCycle
    /\ outbox = <<>>
    /\ email_service = [api_key |-> "re_key", last |-> NoSend]
    /\ scheduler = AsyncIOScheduler
    /\ suspended = [call |-> NoCycle, switches |-> 0]

\* db.execute of get_latest_prices: the statement runs on the table as it is now
execute_latest(route_id, airline_code) ==
    /\ cursor = NULL
    /\ cursor' = [op |-> "latest", route_id |-> route_id,
                  airline_code |-> airline_code, view |-> Len(price_snapshots)]
    /\ UNCHANGED <<price_snapshots, now, response>>
    /\ UNCHANGED alertVars

\* db.execute of get_price_comparison
execute_compare(route_id) ==
    /\ cursor = NULL
    /\ cursor' = [op |-> "compare", route_id |-> route_id,
                  airline_code |-> NoAirline, view |-> Len(price_snapshots)]
    /\ UNCHANGED <<price_snapshots, now, response>>
    /\ UNCHANGED alertVars

\* the table an executed statement reads: SQLite isolates it from later commits
StatementView(cur) == Range(SubSeq(price_snapshots, 1, cur.view))

\* as fetchall_rows, with the MAX(id) subquery run as a second round trip, on
\* the table as it is when the rows are fetched
fetchall_rows_two_trips(cur) ==
    IF cur.op = "latest"
    THEN OrderBy({ps \in LatestRows(StatementView(cur), NoRoute, NoAirline) :
                    /\ ps.id \in MaxIdPerGroup(Snapshots)
                    /\ (cur.route_id # NoRoute => ps.route_id = cur.route_id)
                    /\ (cur.airline_code # NoAirline => ps.airline_code = cur.airline_code)},
                 "price ASC")
    ELSE OrderBy({ComparisonColumns(ps) :
                    ps \in {x \in ComparisonRows(StatementView(cur), cur.route_id) :
                              x.id \in MaxIdPerAirline(Snapshots, cur.route_id)}},
                 "price ASC")

\* every result cursor.fetchall() can return for the executed statement
fetchall_rows(cur) ==
    IF cur.op = "latest"
    THEN get_latest_prices(StatementView(cur), cur.route_id, cur.airline_code)
    ELSE get_price_comparison(StatementView(cur), cur.route_id)

\* cursor.fetchall() and the return of the handler
fetchall ==
    /\ cursor # NULL
    /\ \E rows \in fetchall_rows(cursor) :
          response' = [op |-> cursor.op, route_id |-> cursor.route_id,
                       airline_code |-> cursor.airline_code, rows |-> rows,
                       view |-> cursor.view]
    /\ cursor' = NULL
    /\ UNCHANGED <<price_snapshots, now>>
    /\ UNCHANGED alertVars

----------------------------------------------------------------------------
(* The alert engine.                                                       *)

Emails == {"user@example.com"}

\* create_alert: INSERT INTO price_alerts and commit; is_active defaults to 1,
\* created_at to datetime('now'), triggered_at to NULL
create_alert(route_id, target_price, email, airline_code) ==
    /\ Len(price_alerts) < MaxAlerts
    /\ db_writer = NoWriter
    /\ price_alerts' = Append(price_alerts,
            [id |-> Len(price_alerts) + 1, route_id |-> route_id,
             airline_code |-> airline_code, target_price |-> target_price,
             email |-> email, is_active |-> 1, created_at |-> datetime_now,
             triggered_at |-> NULL])
    /\ UNCHANGED storeVars
    /\ UNCHANGED callVars

\* as get_active_alerts, for a SELECT without the JOIN on routes
get_active_alerts_of_any_route ==
    {[i \in 1..Len(s) |-> s[i].id] :
        s \in OrderBy({pa \in Range(price_alerts) : pa.is_active = 1},
                      "created_at DESC")}

\* every result get_active_alerts can return: the active alerts of seeded
\* routes (JOIN routes), ORDER BY created_at DESC; the ids stand for the rows,
\* whose other columns no statement ever updates
get_active_alerts ==
    {[i \in 1..Len(s) |-> s[i].id] :
        s \in OrderBy({pa \in Range(price_alerts) :
                          pa.route_id \in RouteIds /\ pa.is_active = 1},
                      "created_at DESC")}

\* as lowest_price, for a SELECT MIN over every row of the route
lowest_price_ever(snaps, pa) ==
    LET rows == {ps \in snaps :
                    /\ ps.route_id = pa.route_id
                    /\ (pa.airline_code # NoAirline =>
                            ps.airline_code = pa.airline_code)}
    IN  IF rows = {} THEN NoPrice ELSE SetMin({ps.price : ps \in rows})

\* SELECT MIN(ps.price) ... of check_and_trigger_alerts for alert pa: NULL when
\* no row qualifies
lowest_price(snaps, pa) ==
    LET rows == {ps \in snaps :
                    /\ ps.route_id = pa.route_id
                    /\ ps.id \in MaxIdPerAirline(snaps, pa.route_id)
                    /\ (pa.airline_code # NoAirline =>
                            ps.airline_code = pa.airline_code)}
    IN  IF rows = {} THEN NoPrice ELSE SetMin({ps.price : ps \in rows})

\* as ShouldTrigger, with the lowest price tested against NULL only
ShouldTriggerNotNull(lowest, pa) ==
    lowest # NoPrice /\ lowest <= pa.target_price

\* row and row["lowest_price"] and row["lowest_price"] <= alert["target_price"]
ShouldTrigger(lowest, pa) ==
    lowest # NoPrice /\ lowest # 0 /\ lowest <= pa.target_price

AlertIds(list) == {list[i].id : i \in 1..Len(list)}

\* check_and_trigger_alerts is entered: get_db and get_active_alerts
call(p) ==
    /\ pc[p] = "idle"
    /\ \E list \in get_active_alerts : alerts' = [alerts EXCEPT ![p] = list]
    /\ known' = [known EXCEPT ![p] = reported]
    /\ pc' = [pc EXCEPT ![p] = "loop"]
    /\ UNCHANGED <<price_alerts, alert, row, triggered, pending, db_writer, reported>>
    /\ UNCHANGED storeVars

\* the call is left: its locals are gone
Return(p) ==
    /\ pc' = [pc EXCEPT ![p] = "idle"]
    /\ alerts' = [alerts EXCEPT ![p] = <<>>]
    /\ alert' = [alert EXCEPT ![p] = NoAlert]
    /\ row' = [row EXCEPT ![p] = NULL]
    /\ triggered' = [triggered EXCEPT ![p] = <<>>]
    /\ known' = [known EXCEPT ![p] = {}]

\* one turn of the loop up to the test: the SELECT MIN for the next alert
select(p) ==
    /\ pc[p] = "loop"
    /\ alerts[p] # <<>>
    /\ LET id == Head(alerts[p])
           lowest == lowest_price(Snapshots, price_alerts[id])
       IN  /\ alert' = [alert EXCEPT ![p] = id]
           /\ row' = [row EXCEPT ![p] =
                        [lowest_price |-> lowest, view |-> Len(price_snapshots)]]
           /\ pc' = [pc EXCEPT ![p] =
                        IF ShouldTrigger(lowest, price_alerts[id])
                        THEN "update" ELSE "loop"]
    /\ alerts' = [alerts EXCEPT ![p] = Tail(@)]
    /\ UNCHANGED <<price_alerts, triggered, pending, db_writer, reported, known>>
    /\ UNCHANGED storeVars

\* the UPDATE of the alert, in the connection's open transaction, and the
\* append to triggered; the first UPDATE takes SQLite's write lock
update(p) ==
    /\ pc[p] = "update"
    /\ db_writer \in {NoWriter, p}
    /\ db_writer' = p
    /\ pending' = [pending EXCEPT ![p] =
                     {u \in @ : u.id # alert[p]}
                         \cup {[id |-> alert[p], triggered_at |-> datetime_now]}]
    /\ triggered' = [triggered EXCEPT ![p] =
                       Append(@, [id |-> alert[p],
                                  current_price |-> row[p].lowest_price])]
    /\ pc' = [pc EXCEPT ![p] = "loop"]
    /\ UNCHANGED <<price_alerts, alerts, alert, row, reported, known>>
    /\ UNCHANGED storeVars

\* the UPDATE finds the write lock held beyond the busy timeout and raises
\* "database is locked": finally closes the connection, nothing is returned
update_locked(p) ==
    /\ pc[p] = "update"
    /\ db_writer \notin {NoWriter, p}
    /\ pending' = [pending EXCEPT ![p] = {}]
    /\ Return(p)
    /\ UNCHANGED <<price_alerts, db_writer, reported>>
    /\ UNCHANGED storeVars

\* as Committed, for an UPDATE that also clears is_active
CommittedInactive(updates) ==
    [i \in 1..Len(price_alerts) |->
        IF \E u \in updates : u.id = i
        THEN [price_alerts[i] EXCEPT
                !.triggered_at = (CHOOSE u \in updates : u.id = i).triggered_at,
                !.is_active = 0]
        ELSE price_alerts[i]]

\* the table after the connection's UPDATEs are committed
Committed(updates) ==
    [i \in 1..Len(price_alerts) |->
        IF \E u \in updates : u.id = i
        THEN [price_alerts[i] EXCEPT
                !.triggered_at = (CHOOSE u \in updates : u.id = i).triggered_at]
        ELSE price_alerts[i]]

\* the loop is over: db.commit()
commit(p) ==
    /\ pc[p] = "loop"
    /\ alerts[p] = <<>>
    /\ price_alerts' = Committed(pending[p])
    /\ pending' = [pending EXCEPT ![p] = {}]
    /\ db_writer' = IF db_writer = p THEN NoWriter ELSE db_writer
    /\ pc' = [pc EXCEPT ![p] = "close"]
    /\ UNCHANGED <<alerts, alert, row, triggered, reported, known>>
    /\ UNCHANGED storeVars

\* finally: db.close(), and triggered is returned to fetch_all_prices
close(p) ==
    /\ pc[p] = "close"
    /\ reported' = reported \cup AlertIds(triggered[p])
    /\ Return(p)
    /\ UNCHANGED <<price_alerts, pending, db_writer>>
    /\ UNCHANGED storeVars

----------------------------------------------------------------------------
(* The price model: _generate_mock_data of amadeus_client.py.              *)
(*                                                                         *)
(* A price is a number of cents.  A multiplier is kept as the numerator of *)
(* the fraction the code writes: twentieths for the airline, seasonal and  *)
(* urgency multipliers, tenths for the cabin multiplier and the random     *)
(* factor.  A departure date 'YYYY-MM-DD' is the number of its day, day 0  *)
(* being 1 January.                                                        *)

\* the roster; the model keeps four of its fourteen codes, in the list's order
ONEWORLD_AIRLINES == <<"AA", "BA", "QR", "AT">>

\* the curated airlines per route; the model keeps the two entries of the
\* seeded routes it keeps
ROUTE_AIRLINE_MAP ==
    (<<"DOH", "LHR">> :> <<"QR", "BA">>) @@ (<<"LHR", "DOH">> :> <<"QR", "BA">>)

\* in dollars
BASE_PRICES == (<<"DOH", "LHR">> :> 380) @@ (<<"LHR", "DOH">> :> 350)

\* in twentieths: 1.0, 1.15, 1.20, 0.80
AIRLINE_PRICE_MULTIPLIER == ("AA" :> 20) @@ ("BA" :> 23) @@ ("QR" :> 24) @@ ("AT" :> 16)

\* dict.get(key, default)
Get(dict, key, default) == IF key \in DOMAIN dict THEN dict[key] ELSE default

\* a departure_date string strptime rejects with ValueError
BadDate == -1

\* the days of a year before each month begins
DaysBeforeMonth == <<0, 31, 59, 90, 120, 151, 181, 212, 243, 273, 304, 334>>

\* datetime.strptime(departure_date, "%Y-%m-%d").month
month(departure_date) ==
    LET d == departure_date % 365
    IN  CHOOSE m \in 1..12 :
            /\ DaysBeforeMonth[m] <= d
            /\ (m < 12 => d < DaysBeforeMonth[m + 1])

\* in twentieths: 1.3, 1.25, 1.1, 1.0
seasonal_factor(m) ==
    IF m \in {6, 7, 8} THEN 26
    ELSE IF m \in {12, 1} THEN 25
    ELSE IF m \in {3, 4} THEN 22
    ELSE 20

\* (dep_date - datetime.utcnow()).days: dep_date is midnight of the departure
\* day, utcnow() carries the time of day, and timedelta.days rounds down
days_out(departure_date, clock) ==
    (departure_date - clock.day) - (IF clock.sec > 0 THEN 1 ELSE 0)

\* in twentieths: 1.5, 1.3, 1.15, 1.0, 0.9
urgency_factor(days) ==
    IF days < 7 THEN 30
    ELSE IF days < 14 THEN 26
    ELSE IF days < 30 THEN 23
    ELSE IF days < 60 THEN 20
    ELSE 18

\* as cabin_multiplier, with the highest multiplier for any other cabin class
cabin_multiplier_or_first(cabin_class) ==
    Get(("ECONOMY" :> 10) @@ ("PREMIUM_ECONOMY" :> 16) @@ ("BUSINESS" :> 32)
            @@ ("FIRST" :> 55),
        cabin_class, 55)

\* in tenths: 1.0, 1.6, 3.2, 5.5, and 1.0 for any other cabin class
cabin_multiplier(cabin_class) ==
    Get(("ECONOMY" :> 10) @@ ("PREMIUM_ECONOMY" :> 16) @@ ("BUSINESS" :> 32)
            @@ ("FIRST" :> 55),
        cabin_class, 10)

\* round(base_price * airline_mult * seasonal_factor * urgency_factor
\*       * cabin_multiplier * random_factor, 2), in cents; every base price of
\* the model is a multiple of 10 dollars, so the division by 10 is exact
price_of(base_price, airline_mult, seasonal, urgency, cabin, random_factor) ==
    LET n == (base_price \div 10) * airline_mult * seasonal * urgency * cabin
                 * random_factor
    IN  (n + 400) \div 800

\* as sorted, for a list returned in the order it was built
unsorted(results) == results

\* sorted(results, key=lambda x: x["price"]): stable
RECURSIVE sorted(_)
sorted(results) ==
    IF results = <<>> THEN <<>>
    ELSE LET x == results[Len(results)]
             front == sorted(SubSeq(results, 1, Len(results) - 1))
             k == Cardinality({i \in 1..Len(front) : front[i].price <= x.price})
         IN  SubSeq(front, 1, k) \o <<x>> \o SubSeq(front, k + 1, Len(front))

\* the random source, as the values its next calls return: random.sample(
\* ONEWORLD_AIRLINES, 3), random.randint(200, 800) and, per airline, random.
\* uniform(0.88, 1.15) in tenths
RandomSamples == {<<"AA", "BA", "QR">>, <<"AT", "QR", "AA">>}
RandomInts == {200}
RandomUniforms == {<<9, 9, 9>>, <<9, 11, 11>>}
Random == [sample : RandomSamples, randint : RandomInts, uniform : RandomUniforms]

\* _generate_mock_data(origin, destination, departure_date, return_date,
\* cabin_class) with the random source rnd, called when the clock reads clock
generate_mock_data(origin, destination, departure_date, cabin_class, rnd, clock) ==
    LET route_key == <<origin, destination>>
        airlines == Get(ROUTE_AIRLINE_MAP, route_key, rnd.sample)
        base_price == Get(BASE_PRICES, route_key, rnd.randint)
        parsed == departure_date # BadDate
        seasonal == IF parsed THEN seasonal_factor(month(departure_date)) ELSE 20
        urgency == IF parsed THEN urgency_factor(days_out(departure_date, clock))
                   ELSE 20
        results == [i \in 1..Len(airlines) |->
                      [airline_code |-> airlines[i],
                       price |-> price_of(base_price,
                                          Get(AIRLINE_PRICE_MULTIPLIER, airlines[i], 20),
                                          seasonal, urgency,
                                          cabin_multiplier(cabin_class),
                                          rnd.uniform[i]),
                       cabin_class |-> cabin_class,
                       departure_date |-> departure_date,
                       source |-> "mock"]]
    IN  sorted(results)

----------------------------------------------------------------------------
(* The provider adapter: AmadeusClient of amadeus_client.py.               *)

SecondsPerDay == 86400

\* datetime + timedelta(seconds=s)
plus_seconds(t, s) ==
    LET total == t.sec + s
    IN  [day |-> t.day + (total \div SecondsPerDay), sec |-> total % SecondsPerDay]

\* datetime < datetime
Before(t1, t2) == t1.day < t2.day \/ (t1.day = t2.day /\ t1.sec < t2.sec)

\* what the token endpoint answers: the request raises (transport error or
\* timeout), or a status with, for 200, the body's expires_in if it has one
AuthReplies ==
    {[raised |-> TRUE],
     [raised |-> FALSE, status |-> 401, data |-> [error |-> "invalid_client"]],
     [raised |-> FALSE, status |-> 200, data |-> [token_type |-> "Bearer"]],
     [raised |-> FALSE, status |-> 200, data |-> [token_type |-> "Bearer", expires_in |-> 59]],
     [raised |-> FALSE, status |-> 200, data |-> [token_type |-> "Bearer", expires_in |-> 61]]}

\* offers of a flight-offers body: price.total (0 when absent) and the carrier
\* codes of the first segment (NoAirline when absent)
RawOffers ==
    {[total |-> 40000, operating |-> "BA", carrierCode |-> "AA"],
     [total |-> 0, operating |-> NoAirline, carrierCode |-> "QR"],
     [total |-> 40000, operating |-> "LH", carrierCode |-> "BA"],
     [total |-> 40000, operating |-> NoAirline, carrierCode |-> NoAirline]}

\* what the flight-offers endpoint answers
SearchReplies ==
    {[raised |-> TRUE], [raised |-> FALSE, status |-> 500, data |-> <<>>]}
        \cup {[raised |-> FALSE, status |-> 200, data |-> d] :
                d \in {<<>>} \cup {<<o>> : o \in RawOffers}
                        \cup {<<[total |-> 40000, operating |-> "LH",
                                 carrierCode |-> "BA"],
                                [total |-> 0, operating |-> NoAirline,
                                 carrierCode |-> "QR"]>>}}

\* a request that is never sent has no answer
Unsent == [raised |-> TRUE]

\* the operating carrier of the first segment, else its marketing carrier
\* as carrier_of, for a parser that reads the marketing carrier only
marketing_carrier_of(offer) == offer.carrierCode

\* segments[0].get("operating", {}).get("carrierCode", segments[0].get("carrierCode", ""))
carrier_of(offer) ==
    IF offer.operating # NoAirline THEN offer.operating ELSE offer.carrierCode

\* as InRoster, for a parser that keeps every carrier
AnyCarrier(offer) == TRUE

\* if airline_code not in ONEWORLD_AIRLINES: continue
InRoster(offer) == carrier_of(offer) \in Range(ONEWORLD_AIRLINES)

\* _parse_amadeus_response
parse_amadeus_response(data) ==
    LET kept == SelectSeq(data, InRoster)
    IN  [i \in 1..Len(kept) |->
            [airline_code |-> carrier_of(kept[i]), price |-> kept[i].total,
             source |-> "amadeus"]]

\* as token_expiry, without the safety margin
token_expiry_no_margin(clock, expires_in) == plus_seconds(clock, expires_in)

\* datetime.utcnow() + timedelta(seconds=expires_in - 60)
token_expiry(clock, expires_in) == plus_seconds(clock, expires_in - 60)

\* _authenticate: the client afterwards, the requests sent and whether it raised
authenticate(client, clock, auth) ==
    IF /\ client.access_token # NoToken
       /\ client.token_expires_at # NoTime
       /\ Before(clock, client.token_expires_at)
    THEN [client |-> client, requests |-> <<>>, raised |-> FALSE]
    ELSE IF auth.raised
    THEN [client |-> client, requests |-> <<"token">>, raised |-> TRUE]
    ELSE IF auth.status = 200
    THEN LET expires_in == Get(auth.data, "expires_in", 1799)
         IN  [client |-> [client EXCEPT
                            !.access_token = Token(clock, expires_in),
                            !.token_expires_at = token_expiry(clock, expires_in)],
              requests |-> <<"token">>, raised |-> FALSE]
    ELSE [client |-> client, requests |-> <<"token">>, raised |-> TRUE]

\* as Live, for a client that tests mock mode only
LiveUnlessMock(client) == ~client.use_mock

\* the client goes to the provider: neither mock mode nor a missing API key
Live(client) == ~(client.use_mock \/ client.api_key = "")

\* as results_or_mock, for a client that returns what the provider sent
results_whatever(results, mock) == results

\* "if results: return results", else the mock data
results_or_mock(results, mock) == IF results # <<>> THEN results ELSE mock

\* search_flights: the client afterwards, the offers returned, the requests
\* sent, the cause logged and whether the call raised
search_flights(client, origin, destination, departure_date, cabin_class, auth, reply, rnd, clock) ==
    LET mock == generate_mock_data(origin, destination, departure_date,
                                   cabin_class, rnd, clock)
        a == authenticate(client, clock, auth)
        results == parse_amadeus_response(reply.data)
        sent == a.requests \o <<"flight-offers">>
    IN  IF ~Live(client)
        THEN [client |-> client, offers |-> mock, requests |-> <<>>,
              log |-> "mock mode", raised |-> FALSE]
        ELSE IF a.raised
        THEN [client |-> a.client, offers |-> mock, requests |-> a.requests,
              log |-> "auth failed", raised |-> FALSE]
        ELSE IF reply.raised
        THEN [client |-> a.client, offers |-> mock, requests |-> sent,
              log |-> "request failed", raised |-> FALSE]
        ELSE IF reply.status # 200
        THEN [client |-> a.client, offers |-> mock, requests |-> sent,
              log |-> "API error", raised |-> FALSE]
        ELSE [client |-> a.client, offers |-> results_or_mock(results, mock),
              requests |-> sent,
              log |-> IF results # <<>> THEN "live" ELSE "0 results",
              raised |-> FALSE]

\* fetch cycles appending snapshots and evaluating the alerts, from two entry
\* points that may overlap, while alerts are created
Next ==
    \/ \E r \in RouteIds, a \in AirlineCodes, p \in Prices : save_price_snapshot(r, a, p)
          /\ UNCHANGED cycleVars
    \/ \E r \in ClientRouteIds, t \in Targets, e \in Emails,
          a \in AirlineCodes \cup {NoAirline} : create_alert(r, t, e, a)
          /\ UNCHANGED cycleVars
    \/ \E p \in Procs : call(p)
          /\ UNCHANGED cycleVars
    \/ \E p \in Procs : select(p)
          /\ UNCHANGED cycleVars
    \/ \E p \in Procs : update(p)
          /\ UNCHANGED cycleVars
    \/ \E p \in Procs : update_locked(p)
          /\ UNCHANGED cycleVars
    \/ \E p \in Procs : commit(p)
          /\ UNCHANGED cycleVars
    \/ \E p \in Procs : close(p)
          /\ UNCHANGED cycleVars
    \/ TickSec /\ UNCHANGED cycleVars

Spec == Init /\ [][Next]_vars

\* a client reading latest prices and comparisons while snapshots are appended
LatestNext ==
    \/ \E r \in RouteIds, a \in AirlineCodes, p \in Prices \ {0} : save_price_snapshot(r, a, p)
          /\ UNCHANGED cycleVars
    \/ \E r \in RouteIds \cup {NoRoute}, a \in AirlineCodes \cup {NoAirline} : latest(r, a)
          /\ UNCHANGED cycleVars
    \/ \E r \in RouteIds : compareLatest(r)
          /\ UNCHANGED cycleVars
    \/ TickSec /\ UNCHANGED cycleVars

SpecLatest == Init /\ [][LatestNext]_vars

\* a client reading the history of a route while snapshots are appended
HistoryNext ==
    \/ \E r \in RouteIds, a \in AirlineCodes : save_price_snapshot(r, a, 400)
          /\ UNCHANGED cycleVars
    \/ \E r \in RouteIds, a \in AirlineCodes \cup {NoAirline}, d \in DaysArgs : history(r, a, d)
          /\ UNCHANGED cycleVars
    \/ TickSec /\ UNCHANGED cycleVars
    \/ TickDay /\ UNCHANGED cycleVars

SpecHistory == Init /\ [][HistoryNext]_vars

\* reads whose execute and fetchall are apart, with appends in between
ReadNext ==
    \/ \E r \in RouteIds, a \in AirlineCodes : save_price_snapshot(r, a, 400)
          /\ UNCHANGED cycleVars
    \/ \E r \in RouteIds \cup {NoRoute}, a \in AirlineCodes \cup {NoAirline} : execute_latest(r, a)
          /\ UNCHANGED cycleVars
    \/ \E r \in RouteIds : execute_compare(r)
          /\ UNCHANGED cycleVars
    \/ fetchall /\ UNCHANGED cycleVars
    \/ TickSec /\ UNCHANGED cycleVars

SpecRead == Init /\ [][ReadNext]_vars

\* every operation on the database, each with one input, and one fetch cycle
\* at a time
SystemNext ==
    \/ \E r \in RouteIds : save_price_snapshot(r, "AA", 400)
          /\ UNCHANGED cycleVars
    \/ latest(NoRoute, NoAirline) /\ UNCHANGED cycleVars
    \/ compareLatest(1) /\ UNCHANGED cycleVars
    \/ history(1, NoAirline, 1) /\ UNCHANGED cycleVars
    \/ \E e \in Emails : create_alert(1, 400, e, NoAirline)
          /\ UNCHANGED cycleVars
    \/ call("trigger_fetch") /\ UNCHANGED cycleVars
    \/ select("trigger_fetch") /\ UNCHANGED cycleVars
    \/ update("trigger_fetch") /\ UNCHANGED cycleVars
    \/ commit("trigger_fetch") /\ UNCHANGED cycleVars
    \/ close("trigger_fetch") /\ UNCHANGED cycleVars
    \/ TickSec /\ UNCHANGED cycleVars

SpecSystem == Init /\ [][SystemNext]_vars

\* routes: id |-> <<origin, destination>>; the model keeps two of the 24
\* seeded routes
global_routes == (1 :> <<"DOH", "LHR">>) @@ (2 :> <<"LHR", "DOH">>)

\* search_windows
search_windows == <<7, 14, 30, 60>>

\* the environment: USE_MOCK_DATA and AMADEUS_API_KEY
ApiKeys == {"", "key"}

\* scheduler.py is imported under an environment: amadeus_client = AmadeusClient()
import_scheduler(use_mock, api_key) ==
    /\ amadeus_client' = AmadeusClient(use_mock, api_key)
    /\ UNCHANGED <<cycle, mailVars, appVars>>
    /\ UNCHANGED storeVars
    /\ UNCHANGED alertVars

\* the answers of the provider to the requests client would send
Answers(client, Replies) == IF Live(client) THEN Replies ELSE {Unsent}

\* the random tapes the adapter is run with
AdapterRandom == {rnd \in Random : rnd.sample[1] = "AA" /\ rnd.uniform[2] = 9}

\* amadeus_client.search_flights as fetch_all_prices calls it for a route and
\* a window
fetch(route_id, days_ahead) ==
    \E auth \in Answers(amadeus_client, AuthReplies),
       reply \in Answers(amadeus_client, SearchReplies), rnd \in AdapterRandom :
        LET origin == global_routes[route_id][1]
            destination == global_routes[route_id][2]
            departure_date == now.day + days_ahead
            r == search_flights(amadeus_client, origin, destination, departure_date,
                                "ECONOMY", auth, reply, rnd, now)
        IN  /\ amadeus_client' = r.client
            /\ response' = [op |-> "search_flights", origin |-> origin,
                            destination |-> destination,
                            departure_date |-> departure_date,
                            cabin_class |-> "ECONOMY", random |-> rnd, at |-> now,
                            before |-> amadeus_client, client |-> r.client,
                            auth |-> auth, reply |-> reply,
                            offers |-> r.offers, requests |-> r.requests,
                            log |-> r.log, raised |-> r.raised]
    /\ UNCHANGED <<price_snapshots, now, cursor>>
    /\ UNCHANGED <<cycle, mailVars, appVars>>
    /\ UNCHANGED alertVars

\* what a client of POST /api/prices/search can send
SearchKeys == {<<"DOH", "LHR">>, <<"LHR", "CDG">>}
DaysAhead == Range(search_windows)
DepartureDates == {now.day + d : d \in DaysAhead} \cup {BadDate}
CabinClasses == {"ECONOMY", "FIRST", "SUITE"}

\* POST /api/prices/search: a new AmadeusClient under the same environment,
\* and its search_flights
search(origin, destination, departure_date, cabin_class) ==
    LET client == AmadeusClient(amadeus_client.use_mock, amadeus_client.api_key)
    IN  \E auth \in Answers(client, AuthReplies),
           reply \in Answers(client, SearchReplies), rnd \in Random :
            LET r == search_flights(client, origin, destination, departure_date,
                                    cabin_class, auth, reply, rnd, now)
            IN  response' = [op |-> "search", origin |-> origin,
                             destination |-> destination,
                             departure_date |-> departure_date,
                             cabin_class |-> cabin_class, random |-> rnd,
                             at |-> now, offers |-> r.offers,
                             requests |-> r.requests, log |-> r.log,
                             raised |-> r.raised]
    /\ UNCHANGED <<price_snapshots, now, cursor>>
    /\ UNCHANGED cycleVars
    /\ UNCHANGED alertVars

\* clients of the search endpoint under the default environment, where every
\* answer is the price model's
SynthNext ==
    \/ \E k \in SearchKeys, d \in DepartureDates, c \in CabinClasses : search(k[1], k[2], d, c)
    \/ TickSec /\ UNCHANGED cycleVars
    \/ TickDay /\ UNCHANGED cycleVars

SpecSynth == Init /\ [][SynthNext]_vars

\* the scheduler's client fetching a route, under every environment and every
\* behaviour of the provider
ProviderNext ==
    \/ \E m \in BOOLEAN, k \in ApiKeys : import_scheduler(m, k)
    \/ \E r \in RouteIds : fetch(r, search_windows[1])
    \/ TickSec /\ UNCHANGED cycleVars

SpecProvider == Init /\ [][ProviderNext]_vars

----------------------------------------------------------------------------
(* The fetch cycle: fetch_all_prices of scheduler.py, one call of it.      *)

\* the call slot of the observed cycle
Runner == "trigger_fetch"

\* db.get_routes(): ORDER BY region, origin_city
get_routes == <<1, 2>>

\* the (route, window) pairs in the order of the two loops
Pairs ==
    [k \in 1..(Len(get_routes) * Len(search_windows)) |->
        [route_id |-> get_routes[((k - 1) \div Len(search_windows)) + 1],
         days_ahead |-> search_windows[((k - 1) % Len(search_windows)) + 1]]]

\* the seeded table airlines, for the codes of the roster the model keeps
oneworld_airlines == {"AA", "BA", "QR", "AT"}

\* bool(resend.api_key)
is_configured == email_service.api_key # ""

\* fetch_all_prices is entered: the routes are read, the counters are 0
fetch_all_prices ==
    /\ cycle.at = "idle"
    /\ cycle' = [at |-> "pair", k |-> 1, offers |-> <<>>, found |-> 0,
                 total_fetched |-> 0, errors |-> 0,
                 attempted |-> <<>>, appended |-> <<>>, evaluations |-> 0,
                 triggered |-> <<>>, alerts_raised |-> FALSE, lost |-> {},
                 calls |-> <<>>,
                 result |-> [fetched |-> 0, errors |-> 0]]
    /\ UNCHANGED <<amadeus_client, mailVars, appVars>>
    /\ UNCHANGED storeVars
    /\ UNCHANGED alertVars

\* as AfterPair, with the alert check inside the loop over the routes
AfterPairOfRoute(k) ==
    IF k % Len(search_windows) = 0 THEN "alerts" ELSE "pair"

\* where control goes after pair k: the next pair, or past both loops
AfterPair(k) == IF k = Len(Pairs) THEN "alerts" ELSE "pair"

\* as NextPair, for a loop that fetches the same pair again
RetryPair(c, outcome) ==
    [c EXCEPT !.at = "pair", !.offers = <<>>, !.found = 0,
              !.attempted = Append(@, [outcome |-> outcome, found |-> c.found])]

\* pair c.k is over with the given outcome; attempted remembers the outcome
\* and the number of offers the search returned for the pair
NextPair(c, outcome) ==
    [c EXCEPT !.at = AfterPair(c.k), !.k = @ + 1, !.offers = <<>>, !.found = 0,
              !.attempted = Append(@, [outcome |-> outcome, found |-> c.found])]

\* as Caught, for a loop without try/except: the exception leaves the call
Uncaught(c) == [c EXCEPT !.at = "raised", !.offers = <<>>]

\* as Caught, for an except that logs the error without counting it
CaughtUncounted(c) == NextPair(c, "raised")

\* except Exception: the error is logged and counted, the loop goes on
Caught(c) == [NextPair(c, "raised") EXCEPT !.errors = @ + 1]

\* as AlertsCaught, for a check outside any try
AlertsUncaught(c) == [c EXCEPT !.at = "raised", !.alerts_raised = TRUE]

\* except Exception around check_and_trigger_alerts, the log and the return
AlertsCaught(c) ==
    [c EXCEPT !.at = "returned", !.alerts_raised = TRUE,
              !.result = [fetched |-> c.total_fetched, errors |-> c.errors]]

\* amadeus_client.search_flights for the pair, with the given answers; calls
\* remembers the pair, the requests the call sent and what it logged
search_pair_with(AuthAnswers, SearchAnswers, Tapes) ==
    /\ cycle.at = "pair"
    /\ \E auth \in Answers(amadeus_client, AuthAnswers),
          reply \in Answers(amadeus_client, SearchAnswers), rnd \in Tapes :
          LET pair == Pairs[cycle.k]
              key == global_routes[pair.route_id]
              r == search_flights(amadeus_client, key[1], key[2],
                                  now.day + pair.days_ahead, "ECONOMY",
                                  auth, reply, rnd, now)
              called == [cycle EXCEPT
                           !.calls = Append(@, [k |-> cycle.k, log |-> r.log,
                                                requests |-> r.requests])]
          IN  /\ amadeus_client' = r.client
              /\ cycle' = IF r.raised THEN Caught(called)
                          ELSE IF r.offers = <<>> THEN NextPair(called, "ok")
                          ELSE [called EXCEPT !.at = "offers", !.offers = r.offers,
                                              !.found = Len(r.offers)]
    /\ UNCHANGED <<mailVars, appVars>>
    /\ UNCHANGED storeVars
    /\ UNCHANGED alertVars

\* the same with the random tape the adapter is run with
search_pair(AuthAnswers, SearchAnswers) ==
    search_pair_with(AuthAnswers, SearchAnswers, AdapterRandom)

\* db.save_price_snapshot for the next offer of the pair, and the count
save_offer ==
    /\ cycle.at = "offers"
    /\ db_writer = NoWriter
    /\ LET offer == Head(cycle.offers)
           pair == Pairs[cycle.k]
           saved == [cycle EXCEPT
                       !.offers = Tail(@),
                       !.total_fetched = @ + 1,
                       !.appended = Append(@, [id |-> Len(price_snapshots) + 1,
                                               k |-> cycle.k,
                                               source |-> offer.source,
                                               snapshot |-> NewSnapshot(pair.route_id,
                                                   offer.airline_code,
                                                   offer.price)])]
       IN  /\ price_snapshots' = Inserted(pair.route_id, offer.airline_code, offer.price)
           /\ cycle' = IF saved.offers = <<>> THEN NextPair(saved, "ok") ELSE saved
    /\ UNCHANGED <<now, response, cursor>>
    /\ UNCHANGED <<amadeus_client, mailVars, appVars>>
    /\ UNCHANGED alertVars

\* db.save_price_snapshot raises (the database is locked, the disk is full):
\* the rest of the pair is skipped
save_raises ==
    /\ cycle.at = "offers"
    /\ cycle' = Caught(cycle)
    /\ UNCHANGED <<amadeus_client, mailVars, appVars>>
    /\ UNCHANGED storeVars
    /\ UNCHANGED alertVars

\* db.check_and_trigger_alerts() is called
check_alerts ==
    /\ cycle.at = "alerts"
    /\ call(Runner)
    /\ cycle' = [cycle EXCEPT !.at = "checking", !.evaluations = @ + 1]
    /\ UNCHANGED <<amadeus_client, mailVars, appVars>>

\* a step inside check_and_trigger_alerts
checking(step) ==
    /\ cycle.at = "checking"
    /\ step
    /\ UNCHANGED cycleVars

\* as RolledBack, for a connection in autocommit mode
Autocommitted(updates) == Committed(updates)

\* the table after db.close() without db.commit(): the UPDATEs are undone
RolledBack(updates) == price_alerts

\* a statement of check_and_trigger_alerts raises: its connection is closed,
\* its transaction is lost, and fetch_all_prices logs the error and returns;
\* lost remembers the UPDATEs of the transaction
check_raises ==
    /\ cycle.at = "checking"
    /\ pc[Runner] \in {"loop", "update"}
    /\ price_alerts' = RolledBack(pending[Runner])
    /\ pending' = [pending EXCEPT ![Runner] = {}]
    /\ db_writer' = IF db_writer = Runner THEN NoWriter ELSE db_writer
    /\ Return(Runner)
    /\ cycle' = [AlertsCaught(cycle) EXCEPT !.lost = pending[Runner]]
    /\ UNCHANGED reported
    /\ UNCHANGED <<amadeus_client, mailVars, appVars>>
    /\ UNCHANGED storeVars

\* check_and_trigger_alerts returns triggered: each alert is logged, and
\* fetch_all_prices returns the counts
return_counts ==
    /\ cycle.at = "checking"
    /\ cycle' = [cycle EXCEPT
                   !.at = "returned", !.triggered = triggered[Runner],
                   !.result = [fetched |-> cycle.total_fetched,
                               errors |-> cycle.errors]]
    /\ close(Runner)
    /\ UNCHANGED <<amadeus_client, mailVars, appVars>>

\* target prices in cents
CycleTargets == {100000}

\* what resend.Emails.send does with an email
Deliveries == {"delivered", "raises"}

\* as Sent, for a send outside any try: the exception of the delivery leaves
\* the function
SentUnguarded(kind, to_email, delivery) ==
    IF delivery = "raises"
    THEN [emails |-> <<>>, returned |-> FALSE, raised |-> TRUE]
    ELSE [emails |-> <<[kind |-> kind, to |-> to_email]>>,
          returned |-> TRUE, raised |-> FALSE]

\* try: resend.Emails.send(params); return True; except Exception: return False
Sent(kind, to_email, delivery) ==
    IF delivery = "raises"
    THEN [emails |-> <<>>, returned |-> FALSE, raised |-> FALSE]
    ELSE [emails |-> <<[kind |-> kind, to |-> to_email]>>,
          returned |-> TRUE, raised |-> FALSE]

\* if not is_configured(): return False
Skipped == [emails |-> <<>>, returned |-> FALSE, raised |-> FALSE]

\* send_price_alert(to_email, ...)
send_price_alert(to_email, delivery) ==
    IF ~is_configured THEN Skipped ELSE Sent("price_drop", to_email, delivery)

\* send_alert_confirmation(to_email, ...)
send_alert_confirmation(to_email, delivery) ==
    IF ~is_configured THEN Skipped ELSE Sent("confirmation", to_email, delivery)

\* POST /api/alerts: db.create_alert, then the confirmation email when the
\* email service is configured and the route is found, then the reply; an
\* exception that leaves the handler is answered with status 500
create_alert_handler(route_id, target_price, email, airline_code, delivery) ==
    /\ create_alert(route_id, target_price, email, airline_code)
    /\ LET attempted == is_configured /\ route_id \in RouteIds
           r == IF attempted THEN send_alert_confirmation(email, delivery)
                ELSE Skipped
       IN  /\ outbox' = outbox \o r.emails
           /\ email_service' =
                 [email_service EXCEPT
                    !.last = [call |-> "create_alert",
                              alert_id |-> Len(price_alerts) + 1,
                              attempted |-> attempted, delivery |-> delivery,
                              emails |-> r.emails,
                              returned |-> r.returned, raised |-> r.raised,
                              status |-> IF r.raised THEN 500 ELSE 200]]
    /\ UNCHANGED <<amadeus_client, cycle, appVars>>

\* POST /api/alerts when Resend accepts the email
post_alert(route_id, target_price, email, airline_code) ==
    create_alert_handler(route_id, target_price, email, airline_code, "delivered")

\* one call of fetch_all_prices in the default environment, with writes that
\* can fail, while alerts are created
CycleNext ==
    \/ fetch_all_prices
    \/ search_pair(AuthReplies, SearchReplies)
    \/ save_offer
    \/ save_raises
    \/ check_alerts
    \/ checking(select(Runner))
    \/ checking(update(Runner))
    \/ checking(commit(Runner))
    \/ check_raises
    \/ return_counts
    \/ \E e \in Emails, t \in CycleTargets : post_alert(1, t, e, NoAirline)

SpecCycle == Init /\ [][CycleNext]_vars

----------------------------------------------------------------------------
(* Properties of the snapshot store.                                       *)

Ascending(rows, term) ==
    \A i \in 1..(Len(rows) - 1) : InOrder(term, rows[i], rows[i + 1])

MatchesFilters(g, route_id, airline_code) ==
    /\ (route_id # NoRoute => g[1] = route_id)
    /\ (airline_code # NoAirline => g[2] = airline_code)

\* the snapshot of its group last fetched, the last inserted among equals
IsLatestOfGroup(ps, snaps) ==
    \A q \in snaps :
        GroupOf(q) = GroupOf(ps) =>
            /\ TextLeq(q.fetched_at, ps.fetched_at)
            /\ (q.fetched_at = ps.fetched_at => q.id <= ps.id)

\* C5: latest returns one row for every (route, airline) group that has a
\* snapshot and matches the filters, none for any other group; the row is the
\* group's snapshot of maximal fetched_at, the last inserted among equal ones;
\* the rows are in ascending price order.
C5_LatestOnePerGroup ==
    response.op = "latest" =>
        LET rows == response.rows
            groups == {GroupOf(x) : x \in Snapshots}
        IN  /\ \A g \in groups :
                  MatchesFilters(g, response.route_id, response.airline_code) =>
                      Cardinality({i \in 1..Len(rows) : GroupOf(rows[i]) = g}) = 1
            /\ \A i \in 1..Len(rows) :
                  /\ rows[i] \in Snapshots
                  /\ MatchesFilters(GroupOf(rows[i]), response.route_id,
                                    response.airline_code)
                  /\ IsLatestOfGroup(rows[i], Snapshots)
            /\ Ascending(rows, "price ASC")

\* latest has returned the second of two snapshots of one group fetched in
\* the same second
C5_Witness ==
    /\ response.op = "latest"
    /\ Len(response.rows) = 1
    /\ \E q \in Snapshots :
          /\ GroupOf(q) = GroupOf(response.rows[1])
          /\ q.fetched_at = response.rows[1].fetched_at
          /\ q.id < response.rows[1].id

\* C6: a latest or compareLatest read during which snapshots are appended
\* returns no two rows of one group and a row for every group (matching its
\* filters) that had a snapshot when the read started.
C6_ReadOneConsistentView ==
    (response.op \in {"latest", "compare"}) =>
        LET rows == response.rows
            atStart == Range(SubSeq(price_snapshots, 1, response.view))
            key(r) == IF response.op = "latest" THEN GroupOf(r)
                      ELSE <<response.route_id, r.airline_code>>
            filter == IF response.op = "latest" THEN response.airline_code
                      ELSE NoAirline
        IN  /\ \A i, j \in 1..Len(rows) : key(rows[i]) = key(rows[j]) => i = j
            /\ \A x \in atStart :
                  MatchesFilters(GroupOf(x), response.route_id, filter) =>
                      \E i \in 1..Len(rows) : key(rows[i]) = GroupOf(x)

\* a read has returned a group's row although a newer snapshot of that group
\* was appended between its execute and its fetchall
C6_Witness ==
    /\ response.op \in {"latest", "compare"}
    /\ response.view < Len(price_snapshots)
    /\ Len(response.rows) > 0
    /\ \E i \in (response.view + 1)..Len(price_snapshots) :
          /\ price_snapshots[i].airline_code = response.rows[1].airline_code
          /\ price_snapshots[i].route_id \in
                {x.route_id : x \in {y \in Snapshots :
                    /\ y.id <= response.view
                    /\ y.airline_code = response.rows[1].airline_code
                    /\ MatchesFilters(GroupOf(y), response.route_id, NoAirline)}}

\* the moment a stored fetched_at names: <<day, second of the day>>
Moment(fetched_at) == <<fetched_at[1], fetched_at[3]>>

\* moment m is at or after day d, second s
AtOrAfter(m, d, s) == m[1] > d \/ (m[1] = d /\ m[2] >= s)

\* C8: history returns exactly the snapshots of the route (of the airline when
\* given) fetched at or after now - sinceDays, those of the cutoff day at or
\* after the cutoff time of day included, in ascending fetched_at order.
C8_HistorySinceCutoff ==
    response.op = "history" =>
        LET rows == response.rows
            wanted == {x \in Snapshots :
                         /\ x.route_id = response.route_id
                         /\ (response.airline_code # NoAirline =>
                                x.airline_code = response.airline_code)
                         /\ AtOrAfter(Moment(x.fetched_at),
                                      response.at.day - response.days,
                                      response.at.sec)}
        IN  /\ Range(rows) = wanted
            /\ Len(rows) = Cardinality(wanted)
            /\ Ascending(rows, "fetched_at ASC")

\* C9: a history call (sinceDays >= 1) made right after an append to its route
\* returns the new snapshot as its last row, after every earlier snapshot, also
\* one of the same fetched_at second.
C9_AppendThenHistoryLast ==
    (/\ response.op = "history"
     /\ response.appended # 0
     /\ price_snapshots[response.appended].route_id = response.route_id
     /\ response.airline_code \in
            {NoAirline, price_snapshots[response.appended].airline_code})
        => /\ Len(response.rows) > 0
           /\ response.rows[Len(response.rows)].id = response.appended

\* C10: compareLatest(r) returns the rows latest(route = r) returns (the same
\* airlines, the same snapshot for each), one per airline with a snapshot on r,
\* and both are in ascending price order.
C10_CompareIsLatestOfRoute ==
    response.op = "compare" =>
        \A l \in get_latest_prices(Snapshots, response.route_id, NoAirline) :
            /\ {ComparisonColumns(l[i]) : i \in 1..Len(l)} = Range(response.rows)
            /\ Len(l) = Len(response.rows)
            /\ {l[i].airline_code : i \in 1..Len(l)} =
                  {x.airline_code : x \in {y \in Snapshots :
                                              y.route_id = response.route_id}}
            /\ Cardinality({l[i].airline_code : i \in 1..Len(l)}) = Len(l)
            /\ Ascending(l, "price ASC")
            /\ Ascending(response.rows, "price ASC")

\* compareLatest has returned two airlines of a route at different prices
C10_Witness ==
    /\ response.op = "compare"
    /\ Len(response.rows) = 2
    /\ response.rows[1].price < response.rows[2].price

\* C7: the snapshot store is append-only: every append adds exactly one row,
\* also when its route, airline and price equal an existing row's, and no
\* operation changes or removes a row.
C7_AppendOnly ==
    [][/\ Len(price_snapshots') >= Len(price_snapshots)
       /\ SubSeq(price_snapshots', 1, Len(price_snapshots)) = price_snapshots
       /\ Len(price_snapshots') <= Len(price_snapshots) + 1
       /\ (response' # response /\ response'.op = "append")
             <=> (Len(price_snapshots') = Len(price_snapshots) + 1)]_vars

\* two snapshots of equal route, airline and price are stored
C7_Witness ==
    \E i, j \in 1..Len(price_snapshots) :
        /\ i < j
        /\ price_snapshots[i].route_id = price_snapshots[j].route_id
        /\ price_snapshots[i].airline_code = price_snapshots[j].airline_code
        /\ price_snapshots[i].price = price_snapshots[j].price

----------------------------------------------------------------------------
(* Properties of the alert engine.                                         *)

InCall(p) == pc[p] # "idle"

\* C1: of two calls of check_and_trigger_alerts that overlap, at most one
\* marks and reports a given alert.
C1_RacingCallsReportOnce ==
    \A p, q \in Procs :
        (p # q /\ InCall(p) /\ InCall(q)) =>
            AlertIds(triggered[p]) \cap AlertIds(triggered[q]) = {}

\* C2: an alert a call has returned is in the result of no later call.
C2_ReportedAtMostOnce ==
    \A p \in Procs : AlertIds(triggered[p]) \cap known[p] = {}

\* C3: triggered_at of an alert, once not null, never changes.
C3_TriggeredAtSetOnce ==
    [][\A i \in 1..Len(price_alerts) :
          price_alerts[i].triggered_at # NULL =>
              price_alerts'[i].triggered_at = price_alerts[i].triggered_at]_vars

\* the alert of the last turn of p's loop was triggered
Hit(p) ==
    \/ pc[p] = "update"
    \/ /\ triggered[p] # <<>>
       /\ triggered[p][Len(triggered[p])].id = alert[p]

\* C4: an evaluated alert is triggered if and only if the minimum price over
\* the latest snapshot of each airline of its route (of its airline when one is
\* set) exists and is <= target_price, and the returned entry carries that
\* minimum.
C4_TriggeredIffMinAtMostTarget ==
    \A p \in Procs :
        alert[p] # NoAlert =>
            LET pa == price_alerts[alert[p]]
                seen == Range(SubSeq(price_snapshots, 1, row[p].view))
                latestOnes == {x \in seen :
                                 /\ x.route_id = pa.route_id
                                 /\ (pa.airline_code # NoAirline =>
                                        x.airline_code = pa.airline_code)
                                 /\ IsLatestOfGroup(x, seen)}
                exists == latestOnes # {}
                minimum == SetMin({x.price : x \in latestOnes})
            IN  /\ Hit(p) <=> (exists /\ minimum <= pa.target_price)
                /\ (Hit(p) /\ pc[p] # "update") =>
                      triggered[p][Len(triggered[p])].current_price = minimum

----------------------------------------------------------------------------
(* Properties of the price model.                                          *)

\* the last call was answered by the price model
Synthesized == response.op = "search" /\ response.log = "mock mode"

\* the candidate airlines of the answered request
Candidates ==
    LET key == <<response.origin, response.destination>>
    IN  IF key \in DOMAIN ROUTE_AIRLINE_MAP THEN ROUTE_AIRLINE_MAP[key]
        ELSE response.random.sample

\* C17: for every route, departure date (parseable or not) and cabin class the
\* price model returns a non-empty sequence with one offer per candidate airline
\* (the curated list of the route, else 3 distinct airlines of the roster),
\* ordered by non-decreasing price.
C17_SynthesizeOnePerAirlineAscending ==
    Synthesized =>
        LET offers == response.offers
            key == <<response.origin, response.destination>>
            codes == {offers[i].airline_code : i \in 1..Len(offers)}
        IN  /\ offers # <<>>
            /\ Cardinality(codes) = Len(offers)
            /\ IF key \in DOMAIN ROUTE_AIRLINE_MAP
               THEN codes = Range(ROUTE_AIRLINE_MAP[key])
               ELSE Len(offers) = 3 /\ codes \subseteq Range(ONEWORLD_AIRLINES)
            /\ \A i \in 1..(Len(offers) - 1) : offers[i].price <= offers[i + 1].price

\* an uncurated route whose sampled airlines come back in another order
C17_Witness ==
    /\ Synthesized
    /\ <<response.origin, response.destination>> \notin DOMAIN ROUTE_AIRLINE_MAP
    /\ response.random.sample = <<"AT", "QR", "AA">>
    /\ response.offers[2].airline_code = "AA"
    /\ response.offers[2].price < response.offers[3].price

\* the urgency multiplier (in twentieths) for d calendar days to departure
CalendarUrgency(d) ==
    IF d < 7 THEN 30
    ELSE IF d < 14 THEN 26
    ELSE IF d < 30 THEN 23
    ELSE IF d < 60 THEN 20
    ELSE 18

\* C18: the urgency multiplier used is selected by the number d of calendar
\* days between the evaluation date and the departure date, at every time of
\* day: d < 7: 1.50, d < 14: 1.30, d < 30: 1.15, d < 60: 1.00, else 0.90; every
\* price is the product with that multiplier.
C18_UrgencyByCalendarDays ==
    (Synthesized /\ response.departure_date # BadDate) =>
        LET d == response.departure_date - response.at.day
            key == <<response.origin, response.destination>>
            base_price == Get(BASE_PRICES, key, response.random.randint)
        IN  \A i \in 1..Len(Candidates) :
                \E j \in 1..Len(response.offers) :
                    /\ response.offers[j].airline_code = Candidates[i]
                    /\ response.offers[j].price =
                          price_of(base_price,
                                   AIRLINE_PRICE_MULTIPLIER[Candidates[i]],
                                   seasonal_factor(month(response.departure_date)),
                                   CalendarUrgency(d),
                                   cabin_multiplier(response.cabin_class),
                                   response.random.uniform[i])

\* C19: two invocations of the price model with the same route, departure date
\* and cabin class and the same random source return the same offers.
C19_SameSeedSameOffers ==
    [][(/\ response.op = "search"
        /\ response'.op = "search"
        /\ response.log = "mock mode"
        /\ response'.log = "mock mode"
        /\ response'.origin = response.origin
        /\ response'.destination = response.destination
        /\ response'.departure_date = response.departure_date
        /\ response'.cabin_class = response.cabin_class
        /\ response'.random = response.random)
          => response'.offers = response.offers]_vars

----------------------------------------------------------------------------
(* Properties of the provider adapter.                                     *)

\* the last call was a fetch of the scheduler's client
Fetched == response.op = "search_flights"

\* the causes the adapter logs for a provider failure: authentication failed,
\* non-success response, zero usable results, transport error or timeout
ProviderFailures == {"auth failed", "API error", "0 results", "request failed"}

\* C15: search_flights never propagates a provider failure: on authentication
\* failure, non-success response, zero usable results, transport error or
\* timeout it returns what the price model gives for the same origin,
\* destination, departure date and cabin class, a non-empty list of offers all
\* tagged as synthetic, and raises nothing (so no error is counted).
C15_FailureFallsBackToSynthesis ==
    (Fetched /\ response.log \in ProviderFailures) =>
        /\ ~response.raised
        /\ response.offers # <<>>
        /\ \A i \in 1..Len(response.offers) : response.offers[i].source = "mock"
        /\ response.offers =
              generate_mock_data(response.origin, response.destination,
                                 response.departure_date, response.cabin_class,
                                 response.random, response.at)

\* the provider answered a search with offers of no roster airline
C15_Witness ==
    /\ Fetched
    /\ response.log = "0 results"
    /\ response.requests = <<"token", "flight-offers">>
    /\ Len(response.offers) = 2

\* token tok may still be used at time t: t is before issue time + lifetime - 60 s
Fresh(tok, t) ==
    tok # NoToken /\ Before(t, plus_seconds(tok.issued_at, tok.expires_in - 60))

\* C16: after a successful handshake at time t with lifetime L every fetch
\* before t + L - 60 s reuses the cached token without a new handshake, the
\* first fetch at or after that instant performs a new handshake before the
\* search request, and a failed handshake caches nothing.
C16_TokenCachedUntilExpiry ==
    (Fetched /\ Live(response.before)) =>
        LET tok == response.before.access_token
        IN  /\ Fresh(tok, response.at) =>
                  /\ "token" \notin Range(response.requests)
                  /\ response.client.access_token = tok
            /\ ~Fresh(tok, response.at) => response.requests[1] = "token"
            /\ response.log = "auth failed" =>
                  /\ response.client = response.before
                  /\ ~Fresh(response.client.access_token, response.at)
            /\ (~Fresh(tok, response.at) /\ response.log # "auth failed") =>
                  response.client.access_token.issued_at = response.at

\* a token of the default lifetime is used again one second after the handshake
C16_Witness ==
    /\ Fetched
    /\ Live(response.before)
    /\ response.before.access_token # NoToken
    /\ Before(response.before.access_token.issued_at, response.at)
    /\ response.requests = <<"flight-offers">>

\* the token request times out, or the provider grants a token
MixAuthReplies ==
    {a \in AuthReplies : a.raised \/ (a.status = 200
                                        /\ "expires_in" \in DOMAIN a.data)}

\* the provider times out, or answers with an offer operated outside the
\* roster and one of the roster
MixSearchReplies ==
    {r \in SearchReplies : r.raised \/ (r.status = 200 /\ Len(r.data) = 2)}

\* one call of fetch_all_prices with a live client (USE_MOCK_DATA=false and
\* a key in the environment of the import), each pair answered live or not
MixNext ==
    \/ cycle.at = "idle" /\ import_scheduler(FALSE, "key")
    \/ fetch_all_prices
    \/ search_pair(MixAuthReplies, MixSearchReplies)
    \/ save_offer
    \/ check_alerts
    \/ checking(commit(Runner))
    \/ return_counts

SpecMix == Init /\ [][MixNext]_vars

\* the environment of the import of email_service.py: RESEND_API_KEY
ResendKeys == {"", "re_key"}

\* email_service.py is imported: resend.api_key = os.getenv("RESEND_API_KEY", "")
import_email_service(api_key) ==
    /\ email_service' = [email_service EXCEPT !.api_key = api_key]
    /\ UNCHANGED <<amadeus_client, cycle, outbox, appVars>>
    /\ UNCHANGED storeVars
    /\ UNCHANGED alertVars

\* the two functions that send
SendFunctions == {"send_price_alert", "send_alert_confirmation"}

\* a call of one of them
send(function, to_email, delivery) ==
    /\ Len(outbox) < MaxEmails
    /\ LET r == IF function = "send_price_alert"
                THEN send_price_alert(to_email, delivery)
                ELSE send_alert_confirmation(to_email, delivery)
       IN  /\ outbox' = outbox \o r.emails
           /\ email_service' =
                 [email_service EXCEPT
                    !.last = [call |-> function, configured |-> is_configured,
                              delivery |-> delivery, emails |-> r.emails,
                              returned |-> r.returned, raised |-> r.raised]]
    /\ UNCHANGED <<amadeus_client, cycle, appVars>>
    /\ UNCHANGED storeVars
    /\ UNCHANGED alertVars

\* the email service under every environment and every behaviour of Resend,
\* called directly and by the handler of POST /api/alerts
NotifyNext ==
    \/ \E k \in ResendKeys : import_email_service(k)
    \/ \E f \in SendFunctions, e \in Emails, d \in Deliveries : send(f, e, d)
    \/ \E r \in ClientRouteIds, t \in CycleTargets, e \in Emails, d \in Deliveries :
          create_alert_handler(r, t, e, NoAirline, d)

SpecNotify == Init /\ [][NotifyNext]_vars

\* the random tapes of a cycle whose draws differ from window to window
WindowRandom == {rnd \in Random : rnd.sample[1] = "AA"}

\* a target in cents between the prices of two windows
WindowTargets == {58000}

\* one call of fetch_all_prices in the default environment over alerts made
\* before it, with random draws that differ between the windows and a
\* bounded number of pairs whose first write raises
WindowsNext ==
    \/ cycle.at = "idle" /\ \E e \in Emails, t \in WindowTargets : post_alert(1, t, e, "BA")
    \/ fetch_all_prices
    \/ search_pair_with(AuthReplies, SearchReplies, WindowRandom)
    \/ save_offer
    \/ /\ cycle.at = "offers"
       /\ cycle.found = Len(cycle.offers)
       /\ cycle.errors < MaxFaults
       /\ save_raises
    \/ check_alerts
    \/ checking(select(Runner))
    \/ checking(update(Runner))
    \/ checking(commit(Runner))
    \/ return_counts

SpecWindows == Init /\ [][WindowsNext]_vars

\* the other slot of the two calls
Other(p) == CHOOSE q \in Procs : q # p

\* the locals of the two calls, exchanged
Exchanged(f) == [p \in Procs |-> f[Other(p)]]

\* the event loop runs the other call: the call that ran waits at its await
\* and the one that waited goes on (or begins). cycle is always the call
\* that runs and Runner its slot, so the two records and the slots of the
\* locals are exchanged; a call that returned gives way for good
switch ==
    /\ cycle.at # "idle"
    /\ suspended.call.at # "returned"
    /\ cycle.at # "returned" => suspended.switches < MaxSwitches
    /\ cycle' = suspended.call
    /\ suspended' = [call |-> cycle,
                     switches |-> IF cycle.at = "returned" THEN suspended.switches
                                  ELSE suspended.switches + 1]
    /\ pc' = Exchanged(pc)
    /\ alerts' = Exchanged(alerts)
    /\ alert' = Exchanged(alert)
    /\ row' = Exchanged(row)
    /\ triggered' = Exchanged(triggered)
    /\ pending' = Exchanged(pending)
    /\ known' = Exchanged(known)
    /\ db_writer' = IF db_writer \in Procs THEN Other(db_writer) ELSE db_writer
    /\ UNCHANGED <<price_alerts, reported>>
    /\ UNCHANGED <<amadeus_client, mailVars, scheduler>>
    /\ UNCHANGED storeVars

\* two calls of fetch_all_prices on the event loop (the job, the startup
\* task, the handler of POST /api/fetch-now), in the default environment
OverlapNext ==
    \/ fetch_all_prices
    \/ search_pair(AuthReplies, SearchReplies)
    \/ save_offer
    \* a write that meets the other call's lock raises, and the pair is
    \* counted as an error
    \/ /\ cycle.at = "offers"
       /\ cycle.found = Len(cycle.offers)
       /\ cycle.errors < MaxFaults
       /\ suspended.call.at = "offers"
       /\ cycle.k = suspended.call.k
       /\ save_raises
    \/ check_alerts
    \/ checking(commit(Runner))
    \/ return_counts
    \/ switch

SpecOverlap == Init /\ [][OverlapNext]_vars

\* the provider answers with one offer of the roster, priced or without
\* price.total, or the request times out and the price model answers
ZeroSearchReplies ==
    {r \in SearchReplies :
        r.raised \/ (r.status = 200 /\ Len(r.data) = 1
                        /\ InRoster(r.data[1]) /\ carrier_of(r.data[1]) # "AA")}

\* the provider grants a token
ZeroAuthReplies ==
    {a \in AuthReplies :
        ~a.raised /\ a.status = 200 /\ "expires_in" \notin DOMAIN a.data}

\* the answers to the search of pair k: those of ZeroSearchReplies for the
\* route of the alerts, a timeout for the other route
ZeroAnswers(k) ==
    IF Pairs[k].route_id = 1 THEN ZeroSearchReplies
    ELSE {r \in SearchReplies : r.raised}

\* the target of the alerts, in cents: the price of the priced live offer
ZeroTargets == {40000}

\* one call of fetch_all_prices with a live client over alerts made before
\* it, the provider leaving price.total out of some offers
ZeroNext ==
    \/ cycle.at = "idle" /\ import_scheduler(FALSE, "key")
    \/ /\ cycle.at = "idle"
       /\ \E e \in Emails, t \in ZeroTargets, a \in {NoAirline, "BA"} :
             post_alert(1, t, e, a)
    \/ fetch_all_prices
    \/ cycle.at = "pair" /\ search_pair(ZeroAuthReplies, ZeroAnswers(cycle.k))
    \/ save_offer
    \/ check_alerts
    \/ checking(select(Runner))
    \/ checking(update(Runner))
    \/ checking(commit(Runner))
    \/ return_counts

SpecZero == Init /\ [][ZeroNext]_vars

\* GET /api/alerts: the list get_active_alerts returns is the reply's data
get_alerts ==
    /\ \E list \in get_active_alerts :
          response' = [op |-> "get_alerts", status |-> "ok", data |-> list]
    /\ UNCHANGED <<price_snapshots, now, cursor>>
    /\ UNCHANGED alertVars
    /\ UNCHANGED cycleVars

\* clients creating alerts for seeded and unknown routes and listing the
\* alerts, around one call of fetch_all_prices in the default environment
UnknownNext ==
    \/ \E r \in ClientRouteIds, e \in Emails, t \in CycleTargets :
          post_alert(r, t, e, NoAirline)
    \/ get_alerts
    \/ fetch_all_prices
    \/ search_pair(AuthReplies, SearchReplies)
    \/ save_offer
    \/ check_alerts
    \/ checking(select(Runner))
    \/ checking(update(Runner))
    \/ checking(commit(Runner))
    \/ return_counts

SpecUnknown == Init /\ [][UnknownNext]_vars

\* hours=1
IntervalSeconds == 3600

\* as next_run_time_given, for an add_job without the argument: the first run
\* time is the trigger's, one interval from now
next_run_time_of_trigger == plus_seconds(now, IntervalSeconds)

\* next_run_time=None
next_run_time_given == NoTime

\* scheduler.add_job(func, "interval", hours=1, id=id, next_run_time=t): a
\* job whose next_run_time is None is stored paused
add_job(sched, id, t) == [sched EXCEPT !.job = [id |-> id, next_run_time |-> t]]

\* start_scheduler: add_job and scheduler.start()
start_scheduler(sched) ==
    [add_job(sched, "hourly_price_fetch", next_run_time_given) EXCEPT
        !.running = TRUE, !.started_at = now]

\* fetch_all_prices is called by caller c
Invoked(sched, c) == [sched EXCEPT !.invoked[c] = @ + 1]

\* lifespan at startup: init_db, asyncio.create_task(initial_fetch()) and
\* start_scheduler()
lifespan ==
    /\ ~scheduler.running
    /\ scheduler' = start_scheduler(Invoked(scheduler, "initial_fetch"))
    /\ UNCHANGED <<amadeus_client, cycle, mailVars, suspended>>
    /\ UNCHANGED storeVars
    /\ UNCHANGED alertVars

\* the job is due: it has a next_run_time and that time has come
Due(job) == job.next_run_time # NoTime /\ ~Before(now, job.next_run_time)

\* the scheduler wakes up: a due job is run and gets its next run time; a
\* paused job is never due
process_jobs ==
    /\ scheduler.running
    /\ scheduler' =
          IF Due(scheduler.job)
          THEN [Invoked(scheduler, scheduler.job.id) EXCEPT
                  !.job.next_run_time = plus_seconds(@, IntervalSeconds)]
          ELSE scheduler
    /\ UNCHANGED <<amadeus_client, cycle, mailVars, suspended>>
    /\ UNCHANGED storeVars
    /\ UNCHANGED alertVars

\* POST /api/fetch-now
trigger_fetch ==
    /\ scheduler.running
    /\ scheduler.invoked["trigger_fetch"] < MaxTriggers
    /\ scheduler' = Invoked(scheduler, "trigger_fetch")
    /\ UNCHANGED <<amadeus_client, cycle, mailVars, suspended>>
    /\ UNCHANGED storeVars
    /\ UNCHANGED alertVars

\* an hour passes; the scheduler does not sleep past a due job
HourPasses ==
    /\ plus_seconds(now, IntervalSeconds).day <= MaxDay
    /\ ~(scheduler.running /\ Due(scheduler.job))
    /\ now' = plus_seconds(now, IntervalSeconds)
    /\ UNCHANGED <<price_snapshots, response, cursor>>
    /\ UNCHANGED alertVars
    /\ UNCHANGED cycleVars

\* the application from its startup on, hour by hour
ScheduleNext ==
    \/ lifespan
    \/ process_jobs
    \/ trigger_fetch
    \/ HourPasses

SpecSchedule == Init /\ [][ScheduleNext]_vars

----------------------------------------------------------------------------
(* Properties of the fetch cycle.                                          *)

\* the loops of the cycle are over
PastLoops == cycle.at \in {"alerts", "checking", "returned"}

\* the pairs of the cycle whose search or write raised
RaisedPairs ==
    {k \in 1..Len(cycle.attempted) : cycle.attempted[k].outcome = "raised"}

\* the rows the cycle appended for pair k
AppendedFor(k) ==
    {i \in 1..Len(cycle.appended) : cycle.appended[i].k = k}

\* C11: a failure in one (route, window) pair does not end the cycle: once the
\* loops are over every pair of routes x {7, 14, 30, 60} was attempted, in
\* order, and each pair that did not fail has all its offers in
\* price_snapshots, under the pair's route
C11_FailingPairDoesNotAbort ==
    /\ cycle.at # "raised"
    /\ cycle.at \in {"pair", "offers"} => Len(cycle.attempted) = cycle.k - 1
    /\ PastLoops =>
          /\ Len(cycle.attempted) = Len(get_routes) * Len(search_windows)
          /\ \A k \in 1..Len(cycle.attempted) :
                cycle.attempted[k].outcome = "ok" =>
                    /\ Cardinality(AppendedFor(k)) = cycle.attempted[k].found
                    /\ \A i \in AppendedFor(k) :
                          /\ cycle.appended[i].id \in 1..Len(price_snapshots)
                          /\ price_snapshots[cycle.appended[i].id].route_id
                                = Pairs[k].route_id

\* the first pair failed after one of its offers was saved, the second pair
\* failed before any, the last pair succeeded
C11_Witness ==
    /\ PastLoops
    /\ cycle.attempted[1].outcome = "raised" /\ AppendedFor(1) # {}
    /\ cycle.attempted[2].outcome = "raised" /\ AppendedFor(2) = {}
    /\ cycle.attempted[Len(Pairs)].outcome = "ok"
    /\ Cardinality(AppendedFor(Len(Pairs))) = 2

\* the counts are those of the cycle: errors the pairs that raised, fetched
\* the rows appended, which are all the rows of the table
CountsAreExact ==
    /\ cycle.result.errors = Cardinality(RaisedPairs)
    /\ cycle.result.fetched = Len(cycle.appended)
    /\ {cycle.appended[i].id : i \in 1..Len(cycle.appended)}
          = 1..Len(price_snapshots)

\* the cycle was started and has not returned
UnderWay == cycle.at \in {"pair", "offers", "alerts", "checking"}

\* where the cycle is: in fetch_all_prices and in check_and_trigger_alerts
Position == <<cycle.at, cycle.k, cycle.offers, pc[Runner], alerts[Runner]>>

\* what is left to do, as a number: the pairs and the offers of the current
\* pair, then the alert check and the alerts it has not looked at
Rank ==
    CASE cycle.at = "pair" -> 100 + 10 * (Len(Pairs) + 1 - cycle.k)
      [] cycle.at = "offers" -> 100 + 10 * (Len(Pairs) - cycle.k) + Len(cycle.offers)
      [] cycle.at = "alerts" -> 50
      [] cycle.at = "checking" ->
            3 * Len(alerts[Runner])
              + (CASE pc[Runner] = "update" -> 3
                   [] pc[Runner] = "loop" -> 2
                   [] OTHER -> 1)
      [] OTHER -> 0

\* the cycle is not blocked: its next step can be taken
CanStep ==
    CASE cycle.at = "pair" ->
            /\ Answers(amadeus_client, AuthReplies) # {}
            /\ Answers(amadeus_client, SearchReplies) # {}
      [] cycle.at = "offers" -> ENABLED save_offer
      [] cycle.at = "alerts" -> ENABLED check_alerts
      [] cycle.at = "checking" ->
            ENABLED (\/ checking(select(Runner))
                     \/ checking(update(Runner))
                     \/ checking(commit(Runner))
                     \/ return_counts)
      [] OTHER -> TRUE

\* C12: a started cycle always ends by returning its counts and never by an
\* exception, whichever pairs fail and whether or not the alert check fails:
\* it never leaves by an exception, it can always take its next step, and
\* every step brings it closer to the return; errors is the number of pairs
\* that raised and fetched the number of rows the call appended
C12_AlwaysReturnsExactCounts ==
    /\ [](cycle.at # "raised")
    /\ [](cycle.at = "returned" => CountsAreExact)
    /\ [](UnderWay => CanStep)
    /\ [][UnderWay /\ Position' # Position => Rank' < Rank]_vars

\* a cycle returned after a failed pair, a saved offer and a failed alert check
C12_Witness ==
    /\ cycle.at = "returned"
    /\ cycle.alerts_raised
    /\ cycle.result.errors >= 1
    /\ cycle.result.fetched >= 1

\* C13: check_and_trigger_alerts is called once per cycle, and only when
\* every (route, window) pair was attempted, whether it succeeded or failed:
\* not at all while the loops run, once from then on
C13_AlertCheckOnceAfterAllPairs ==
    /\ cycle.at \in {"pair", "offers", "alerts"} => cycle.evaluations = 0
    /\ cycle.at \in {"checking", "returned"} =>
          /\ cycle.evaluations = 1
          /\ Len(cycle.attempted) = Len(get_routes) * Len(search_windows)
          /\ \A r \in 1..Len(get_routes), w \in 1..Len(search_windows) :
                \E k \in 1..Len(cycle.attempted) :
                    Pairs[k] = [route_id |-> get_routes[r],
                                days_ahead |-> search_windows[w]]

\* the alert check runs after a cycle in which every pair failed
C13_Witness ==
    /\ cycle.at = "checking"
    /\ cycle.evaluations = 1
    /\ Cardinality(RaisedPairs) = Len(Pairs)
    /\ price_snapshots = <<>>

\* the price-drop emails sent to an address
PriceDropsTo(email) ==
    {i \in 1..Len(outbox) :
        outbox[i].kind = "price_drop" /\ outbox[i].to = email}

\* C14: when the cycle has returned, each alert its check triggered got one
\* price-drop email to the alert's address
C14_OneEmailPerTriggeredAlert ==
    cycle.at = "returned" =>
        \A i \in 1..Len(cycle.triggered) :
            Cardinality(PriceDropsTo(price_alerts[cycle.triggered[i].id].email)) = 1

\* the sources of the rows the cycle appended
AppendedSources == {cycle.appended[i].source : i \in 1..Len(cycle.appended)}

\* the offers synthesized for a route outside ROUTE_AIRLINE_MAP
UncuratedOffers ==
    UNION {Range(generate_mock_data("LHR", "CDG", now.day + search_windows[1],
                                    "ECONOMY", rnd, now)) : rnd \in Random}

\* C20: every row of price_snapshots has the id of a seeded route and the code
\* of a seeded airline, whether its offer was live or synthesized; the offers
\* synthesized for a route outside the curated map carry seeded codes too
C20_SnapshotsReferenceCatalogs ==
    /\ \A ps \in Range(price_snapshots) :
          /\ ps.route_id \in RouteIds
          /\ ps.airline_code \in oneworld_airlines
    /\ \A offer \in UncuratedOffers : offer.airline_code \in oneworld_airlines

\* the table holds rows of live offers and rows of synthesized offers, after
\* a live answer that named a carrier outside the roster
C20_Witness ==
    /\ cycle.at = "returned"
    /\ AppendedSources = {"amadeus", "mock"}
    /\ UncuratedOffers # {}
    /\ \E ps \in Range(price_snapshots) : ps.price = 0

\* a step of the cycle in which the write of an offer raised
SaveFailed ==
    /\ cycle.at = "offers"
    /\ cycle' # cycle
    /\ price_snapshots' = price_snapshots

\* C29: when the write of the k-th offer of a pair raises, the k-1 rows of the
\* pair stay in the table and in the count, the other offers of the pair are
\* dropped, errors grows by one and the loop goes to the next pair
C29_FailedWriteKeepsEarlierRows ==
    [][SaveFailed =>
          /\ cycle'.appended = cycle.appended
          /\ Cardinality(AppendedFor(cycle.k)) = cycle.found - Len(cycle.offers)
          /\ cycle'.total_fetched = cycle.total_fetched
          /\ cycle.total_fetched = Len(cycle.appended)
          /\ cycle'.offers = <<>>
          /\ cycle'.errors = cycle.errors + 1
          /\ cycle'.k = cycle.k + 1
          /\ cycle'.at = (IF cycle.k = Len(Pairs) THEN "alerts" ELSE "pair")
          /\ cycle'.attempted = Append(cycle.attempted,
                                       [outcome |-> "raised", found |-> cycle.found])]_vars

\* the write of the second offer of the first pair raised: one row, one
\* error, and the second pair is next
C29_Witness ==
    /\ cycle.at = "pair" /\ cycle.k = 2
    /\ cycle.attempted[1] = [outcome |-> "raised", found |-> 2]
    /\ Cardinality(AppendedFor(1)) = 1
    /\ Len(price_snapshots) = 1
    /\ cycle.total_fetched = 1 /\ cycle.errors = 1

\* the alerts whose triggered_at is set in the table
Marked == {i \in 1..Len(price_alerts) : price_alerts[i].triggered_at # NULL}

\* C30: the UPDATEs of one alert check reach the table together, at its
\* commit: none is in the table while the check runs; when the check raised,
\* no alert is marked, none is reported and the cycle returned its counts;
\* when it returned, every alert it reported is marked
C30_UpdatesCommittedTogether ==
    /\ cycle.at \in {"pair", "offers", "alerts"} => Marked = {}
    /\ cycle.at = "checking" /\ pc[Runner] \in {"loop", "update"} => Marked = {}
    /\ cycle.at = "returned" /\ cycle.alerts_raised =>
          /\ Marked = {}
          /\ cycle.triggered = <<>>
          /\ reported = {}
          /\ pending[Runner] = {}
          /\ cycle.result = [fetched |-> cycle.total_fetched, errors |-> cycle.errors]
    /\ cycle.at = "returned" /\ ~cycle.alerts_raised =>
          /\ AlertIds(cycle.triggered) = Marked
          /\ reported = Marked

\* the check raised after the UPDATE of an alert
C30_Witness ==
    /\ cycle.at = "returned"
    /\ cycle.alerts_raised
    /\ cycle.lost # {}
    /\ cycle.result.fetched >= 1

\* the check returned an alert
C30_WitnessCommitted ==
    /\ cycle.at = "returned"
    /\ ~cycle.alerts_raised
    /\ Marked # {}

----------------------------------------------------------------------------
(* The frame of check_and_trigger_alerts.                                  *)

\* a step of some call of check_and_trigger_alerts
CheckStep == pc' # pc \/ alerts' # alerts

\* the call that commits in this step returns alert i, with a price that is
\* there and at most the target
TriggeredBy(i) ==
    \E p \in Procs :
        /\ pc[p] = "loop" /\ pc'[p] = "close"
        /\ \E t \in Range(triggered[p]) :
              /\ t.id = i
              /\ t.current_price # NoPrice
              /\ t.current_price <= price_alerts[i].target_price

\* C23: a step of check_and_trigger_alerts leaves price_snapshots as it is,
\* adds and removes no alert, and changes no column of an alert but
\* triggered_at, and that only for an alert the call triggers; is_active
\* stays 1
C23_CheckChangesOnlyTriggeredAt ==
    [][CheckStep =>
          /\ price_snapshots' = price_snapshots
          /\ Len(price_alerts') = Len(price_alerts)
          /\ \A i \in 1..Len(price_alerts) :
                /\ [price_alerts'[i] EXCEPT
                      !.triggered_at = price_alerts[i].triggered_at]
                      = price_alerts[i]
                /\ price_alerts'[i].is_active = 1
                /\ price_alerts'[i] # price_alerts[i] => TriggeredBy(i)]_vars

\* a committed check that triggered an alert: the alert is marked and active
C23_Witness ==
    /\ \E p \in Procs : pc[p] = "close" /\ triggered[p] # <<>>
    /\ \E i \in Marked : price_alerts[i].is_active = 1
    /\ price_snapshots # <<>>

----------------------------------------------------------------------------
(* Live offers.                                                            *)

\* the airline to record for a raw offer: the operating carrier of the first
\* segment when there is one, else the marketing carrier
Recorded(raw) ==
    IF raw.operating # NoAirline THEN raw.operating ELSE raw.carrierCode

\* the raw offers of a reply whose recorded airline is in the roster
Supported(data) ==
    {i \in 1..Len(data) : Recorded(data[i]) \in Range(ONEWORLD_AIRLINES)}

\* the j-th of them
NthSupported(data, j) ==
    CHOOSE i \in Supported(data) :
        Cardinality({m \in Supported(data) : m < i}) = j - 1

\* the provider answered the search with status 200
Answered ==
    /\ Fetched
    /\ response.log \in {"live", "0 results"}

\* C25: the offers returned for a live answer are its raw offers whose
\* recorded airline (operating carrier of the first segment, else marketing
\* carrier) is in the roster, in order and under that airline; when there is
\* none the offers are the synthesized ones
C25_LiveOffersFilteredByRecordedAirline ==
    Answered =>
        LET data == response.reply.data
        IN  IF Supported(data) = {}
            THEN /\ response.log = "0 results"
                 /\ response.offers =
                       generate_mock_data(response.origin, response.destination,
                                          response.departure_date,
                                          response.cabin_class,
                                          response.random, response.at)
            ELSE /\ response.log = "live"
                 /\ Len(response.offers) = Cardinality(Supported(data))
                 /\ \A j \in 1..Len(response.offers) :
                       LET raw == data[NthSupported(data, j)]
                       IN  /\ response.offers[j].airline_code = Recorded(raw)
                           /\ response.offers[j].price = raw.total
                           /\ response.offers[j].source = "amadeus"

\* an answer with a flight marketed by BA and operated outside the roster,
\* which is dropped, and a flight with a marketing carrier only, which is kept
C25_Witness ==
    /\ Answered
    /\ Len(response.reply.data) = 2
    /\ response.reply.data[1].operating = "LH"
    /\ response.reply.data[1].carrierCode = "BA"
    /\ Len(response.offers) = 1
    /\ response.offers[1].airline_code = "QR"

\* an answer with a flight marketed by AA and operated by BA, recorded as BA
C25_WitnessOperating ==
    /\ Answered
    /\ response.reply.data = <<[total |-> 40000, operating |-> "BA", carrierCode |-> "AA"]>>
    /\ response.offers[1].airline_code = "BA"

----------------------------------------------------------------------------
(* No retry inside a cycle.                                                *)

\* how many times request name is in a sequence of requests
Times(name, requests) ==
    Cardinality({i \in 1..Len(requests) : requests[i] = name})

\* C22: in one cycle search_flights is called once per (route, window) pair,
\* in the order of the loops, and a call sends at most one token request and
\* at most one flight-offers request, whatever the answers
C22_NoRetryWithinCycle ==
    cycle.at # "idle" =>
        /\ \A i \in 1..Len(cycle.calls) :
              /\ cycle.calls[i].k = i
              /\ Times("token", cycle.calls[i].requests) <= 1
              /\ Times("flight-offers", cycle.calls[i].requests) <= 1
        /\ cycle.at = "pair" => Len(cycle.calls) = cycle.k - 1
        /\ cycle.at = "offers" => Len(cycle.calls) = cycle.k
        /\ PastLoops => Len(cycle.calls) = Len(get_routes) * Len(search_windows)

\* a cycle in which a token request failed, a search request failed after a
\* new token, and a search was answered: each pair was fetched once
C22_Witness ==
    /\ cycle.at = "returned"
    /\ Len(cycle.calls) = Len(Pairs)
    /\ cycle.calls[1] = [k |-> 1, log |-> "auth failed", requests |-> <<"token">>]
    /\ cycle.calls[2] = [k |-> 2, log |-> "request failed",
                         requests |-> <<"token", "flight-offers">>]
    /\ cycle.calls[3].log = "live"

----------------------------------------------------------------------------
(* Defaults of the price model.                                            *)

\* the cabin multiplier in tenths: 1.0 for a cabin class that is not known
DefaultedCabin(cabin_class) ==
    CASE cabin_class = "PREMIUM_ECONOMY" -> 16
      [] cabin_class = "BUSINESS" -> 32
      [] cabin_class = "FIRST" -> 55
      [] OTHER -> 10

\* price p, in cents, is base x airline x cabin x f for some f of
\* [0.88, 1.15], up to the rounding to a cent; airline is in twentieths and
\* cabin in tenths
InRandomBand(p, base_price, airline_mult, cabin) ==
    /\ 200 * p + 100 >= base_price * airline_mult * cabin * 88
    /\ 200 * p - 100 <= base_price * airline_mult * cabin * 115

\* C26: a departure date that does not parse raises nothing and gives both
\* the seasonal and the urgency multiplier as 1.00, so that each price is
\* base x airline multiplier x cabin multiplier x the random factor, within
\* [0.88, 1.15] of the product; a cabin class that is not known raises
\* nothing and counts as 1.0
C26_DefaultsWithoutError ==
    Synthesized =>
        LET key == <<response.origin, response.destination>>
            base_price == Get(BASE_PRICES, key, response.random.randint)
            cabin == DefaultedCabin(response.cabin_class)
        IN  /\ ~response.raised
            /\ Len(response.offers) = Len(Candidates)
            /\ response.departure_date = BadDate =>
                  \A i \in 1..Len(Candidates) :
                      \E j \in 1..Len(response.offers) :
                          /\ response.offers[j].airline_code = Candidates[i]
                          /\ response.offers[j].price =
                                price_of(base_price,
                                         AIRLINE_PRICE_MULTIPLIER[Candidates[i]],
                                         20, 20, cabin, response.random.uniform[i])
                          /\ InRandomBand(response.offers[j].price, base_price,
                                          AIRLINE_PRICE_MULTIPLIER[Candidates[i]],
                                          cabin)
            /\ response.cabin_class \notin {"ECONOMY", "PREMIUM_ECONOMY", "BUSINESS", "FIRST"} =>
                  LET economy == generate_mock_data(response.origin,
                                     response.destination, response.departure_date,
                                     "ECONOMY", response.random, response.at)
                  IN  \A j \in 1..Len(response.offers) :
                          /\ response.offers[j].price = economy[j].price
                          /\ response.offers[j].airline_code = economy[j].airline_code

\* offers for a date that does not parse and a cabin class that is not known
C26_Witness ==
    /\ Synthesized
    /\ response.departure_date = BadDate
    /\ response.cabin_class = "SUITE"
    /\ response.offers # <<>>
    /\ ~response.raised

\* offers for a date that does not parse, in first class
C26_WitnessFirst ==
    /\ Synthesized
    /\ response.departure_date = BadDate
    /\ response.cabin_class = "FIRST"
    /\ response.offers # <<>>

----------------------------------------------------------------------------
(* The email service.                                                      *)

\* C24: send_price_alert and send_alert_confirmation never raise; without an
\* API key they hand nothing to Resend and return False, and when the
\* delivery fails they return False; POST /api/alerts answers 200 with the
\* alert in price_alerts, whatever became of the confirmation
C24_NotifierNeverRaises ==
    LET last == email_service.last
    IN  /\ last.call \in SendFunctions =>
              /\ ~last.raised
              /\ ~last.configured => last.emails = <<>> /\ ~last.returned
              /\ last.delivery = "raises" => last.emails = <<>> /\ ~last.returned
              /\ last.returned <=> last.emails # <<>>
        /\ last.call = "create_alert" =>
              /\ last.status = 200
              /\ last.alert_id \in 1..Len(price_alerts)
              /\ price_alerts[last.alert_id].is_active = 1
              /\ ~last.raised
              /\ last.emails # <<>> <=>
                    last.attempted /\ last.delivery = "delivered"

\* an alert was created while the delivery of its confirmation failed
C24_Witness ==
    /\ email_service.last.call = "create_alert"
    /\ email_service.last.attempted
    /\ email_service.last.delivery = "raises"
    /\ email_service.last.status = 200
    /\ price_alerts # <<>>
    /\ outbox = <<>>

\* send_price_alert was called without an API key
C24_WitnessUnconfigured ==
    /\ email_service.last.call = "send_price_alert"
    /\ ~email_service.last.configured
    /\ ~email_service.last.returned
    /\ outbox = <<>>

----------------------------------------------------------------------------
(* The hourly job.                                                         *)

\* more than one interval has passed since start_scheduler
IntervalElapsed ==
    /\ scheduler.running
    /\ Before(plus_seconds(scheduler.started_at, IntervalSeconds), now)

\* C27: after start_scheduler the job hourly_price_fetch calls
\* fetch_all_prices by itself: not at the startup, and once an interval has
\* passed it has run
C27_HourlyJobRunsOnItsOwn ==
    /\ (scheduler.running /\ now = scheduler.started_at) =>
          scheduler.invoked["hourly_price_fetch"] = 0
    /\ IntervalElapsed => scheduler.invoked["hourly_price_fetch"] >= 1

----------------------------------------------------------------------------
(* The windows of a route and the alert check.                             *)

\* the rows the cycle appended for route r and airline a
RowsOf(r, a) ==
    {i \in 1..Len(cycle.appended) :
        /\ price_snapshots[cycle.appended[i].id].route_id = r
        /\ price_snapshots[cycle.appended[i].id].airline_code = a}

\* the window a row of the cycle was fetched for
WindowOf(i) == Pairs[cycle.appended[i].k].days_ahead

\* of the rows of the cycle for route r and airline a, the one of the
\* largest window
LargestWindowRow(r, a) ==
    LET i == CHOOSE i \in RowsOf(r, a) :
                 \A j \in RowsOf(r, a) : WindowOf(j) <= WindowOf(i)
    IN  price_snapshots[cycle.appended[i].id]

\* the prices an alert is compared with: per airline of its route (its own
\* airline if it names one), the price of the largest window
WindowPrices(pa) ==
    {LargestWindowRow(pa.route_id, a).price :
        a \in {a \in oneworld_airlines :
                  /\ RowsOf(pa.route_id, a) # {}
                  /\ (pa.airline_code # NoAirline => a = pa.airline_code)}}

\* the prices the cycle fetched for the route (and airline) of an alert
FetchedPrices(pa) ==
    {price_snapshots[cycle.appended[i].id].price :
        i \in {i \in 1..Len(cycle.appended) :
                  /\ price_snapshots[cycle.appended[i].id].route_id = pa.route_id
                  /\ (pa.airline_code # NoAirline =>
                          price_snapshots[cycle.appended[i].id].airline_code
                              = pa.airline_code)}}

\* C28: the windows of a route are fetched in the order 7, 14, 30, 60, so
\* after the loops the newest row of a (route, airline) is the one of the
\* largest window that gave it a row, and the alert check of the cycle
\* triggers an alert when a price of those rows is at most its target,
\* whatever cheaper price the cycle fetched in a smaller window
C28_AlertsSeeLargestWindowOnly ==
    /\ cycle.at \in {"pair", "offers"} =>
          \A i \in 1..Len(cycle.attempted) :
              i > 1 /\ Pairs[i].route_id = Pairs[i - 1].route_id =>
                  Pairs[i].days_ahead > Pairs[i - 1].days_ahead
    /\ PastLoops =>
          \A r \in RouteIds, a \in oneworld_airlines :
              RowsOf(r, a) # {} =>
                  LargestWindowRow(r, a).id
                      = SetMax({cycle.appended[i].id : i \in RowsOf(r, a)})
    /\ (cycle.at = "returned" /\ ~cycle.alerts_raised) =>
          \A id \in 1..Len(price_alerts) :
              id \in AlertIds(cycle.triggered) <=>
                  \E p \in WindowPrices(price_alerts[id]) :
                      p # 0 /\ p <= price_alerts[id].target_price

\* the cycle fetched a price under the target of an alert in the 14-day
\* window and a price over it in the 30-day window, which is the newest: the
\* alert is not triggered
C28_Witness ==
    /\ cycle.at = "returned" /\ ~cycle.alerts_raised
    /\ price_alerts # <<>>
    /\ cycle.triggered = <<>>
    /\ \E p \in FetchedPrices(price_alerts[1]) : p <= price_alerts[1].target_price
    /\ \A p \in WindowPrices(price_alerts[1]) : p > price_alerts[1].target_price

----------------------------------------------------------------------------
(* Two fetch cycles at once.                                               *)

\* the calls of fetch_all_prices that have begun
Begun == {c \in {cycle, suspended.call} : c.at # "idle"}

\* the ids of the rows call c appended
IdsOf(c) == {c.appended[i].id : i \in 1..Len(c.appended)}

\* both calls have returned
BothReturned == cycle.at = "returned" /\ suspended.call.at = "returned"

\* C21: two calls of fetch_all_prices that overlap leave price_snapshots
\* sound: each call counts its own rows, every row either call wrote is in
\* the table as it was written, no row is written twice or lost, and when
\* both have returned the table has grown by the sum of the two fetched
\* counts
C21_OverlappingCyclesKeepStore ==
    /\ \A c \in Begun :
          /\ c.total_fetched = Len(c.appended)
          /\ Cardinality(IdsOf(c)) = Len(c.appended)
          /\ \A i \in 1..Len(c.appended) :
                /\ c.appended[i].id \in 1..Len(price_snapshots)
                /\ price_snapshots[c.appended[i].id] = c.appended[i].snapshot
    /\ cycle.at # "idle" /\ suspended.call.at # "idle" =>
          IdsOf(cycle) \cap IdsOf(suspended.call) = {}
    /\ UNION {IdsOf(c) : c \in Begun} = 1..Len(price_snapshots)
    /\ BothReturned =>
          Len(price_snapshots)
              = cycle.result.fetched + suspended.call.result.fetched

\* both calls returned after writing in turns: a row of one call lies
\* between two rows of the other, for each of them
C21_Witness ==
    /\ BothReturned
    /\ cycle.result.fetched > 0 /\ suspended.call.result.fetched > 0
    /\ \E i, k \in IdsOf(cycle), j \in IdsOf(suspended.call) : i < j /\ j < k
    /\ \E i, k \in IdsOf(suspended.call), j \in IdsOf(cycle) : i < j /\ j < k

----------------------------------------------------------------------------
(* Offers without a price and the alert check.                             *)

\* the newest row of each airline of the route of alert pa (of its airline
\* when it names one)
NewestRows(pa) ==
    {x \in Range(price_snapshots) :
        /\ x.route_id = pa.route_id
        /\ (pa.airline_code # NoAirline => x.airline_code = pa.airline_code)
        /\ \A y \in Range(price_snapshots) :
              y.route_id = x.route_id /\ y.airline_code = x.airline_code =>
                  y.id <= x.id}

\* the row came from the provider without price.total
Unpriced(x) ==
    /\ x.price = 0
    /\ \E i \in 1..Len(cycle.appended) :
          cycle.appended[i].id = x.id /\ cycle.appended[i].source = "amadeus"

\* C31: a minimum of 0 over the newest rows of an alert's route, which a live
\* offer without price.total brings about, does not trigger the alert, while
\* a minimum above 0 and at most the target does: in the turn of the loop for
\* the alert, and in what the cycle's check returns and commits
C31_ZeroMinimumIsNoPrice ==
    /\ (cycle.at = "checking" /\ alert[Runner] # NoAlert) =>
          LET pa == price_alerts[alert[Runner]]
              minimum == SetMin({x.price : x \in NewestRows(pa)})
          IN  NewestRows(pa) # {} =>
                 /\ minimum = 0 => ~Hit(Runner)
                 /\ (minimum > 0 /\ minimum <= pa.target_price) => Hit(Runner)
    /\ cycle.at = "returned" =>
          \A id \in 1..Len(price_alerts) :
              LET pa == price_alerts[id]
                  minimum == SetMin({x.price : x \in NewestRows(pa)})
              IN  NewestRows(pa) # {} =>
                     /\ minimum = 0 =>
                           /\ id \notin AlertIds(cycle.triggered)
                           /\ pa.triggered_at = NULL
                     /\ (minimum > 0 /\ minimum <= pa.target_price) =>
                           /\ id \in AlertIds(cycle.triggered)
                           /\ pa.triggered_at # NULL

\* the cycle returned without triggering an alert whose route has a newest
\* row without price from the provider, and another newest row priced at
\* most the target
C31_Witness ==
    /\ cycle.at = "returned"
    /\ price_alerts # <<>>
    /\ price_alerts[1].airline_code = NoAirline
    /\ price_alerts[1].triggered_at = NULL
    /\ cycle.triggered = <<>>
    /\ \E x \in NewestRows(price_alerts[1]) : Unpriced(x)
    /\ \E x \in NewestRows(price_alerts[1]) :
          x.price > 0 /\ x.price <= price_alerts[1].target_price

\* the cycle returned having triggered an alert on a minimum above 0
C31_WitnessTriggered ==
    /\ cycle.at = "returned"
    /\ price_alerts # <<>>
    /\ price_alerts[1].triggered_at # NULL
    /\ SetMin({x.price : x \in NewestRows(price_alerts[1])}) > 0

----------------------------------------------------------------------------
(* Alerts of routes the catalog does not have.                             *)

\* the ids of the alerts whose route_id is no id of the table routes
UnknownRouteAlerts ==
    {i \in 1..Len(price_alerts) : price_alerts[i].route_id \notin RouteIds}

\* POST /api/alerts stored an alert for an unknown route and answered 200
AcceptedUnknown ==
    /\ email_service.last.call = "create_alert"
    /\ email_service.last.alert_id \in UnknownRouteAlerts
    /\ email_service.last.status = 200

\* C32: POST /api/alerts stores the alert of any route_id and answers ok;
\* the alert of an unknown route stays active and untriggered, is in no list
\* GET /api/alerts returns, and the alert check never takes it up, updates
\* it or returns it
C32_UnknownRouteAlertIsInert ==
    /\ email_service.last.call = "create_alert" =>
          /\ email_service.last.status = 200
          /\ email_service.last.alert_id \in 1..Len(price_alerts)
    /\ \A i \in UnknownRouteAlerts :
          /\ price_alerts[i].is_active = 1
          /\ price_alerts[i].triggered_at = NULL
          /\ response.op = "get_alerts" => i \notin Range(response.data)
          /\ \A p \in Procs :
                /\ i \notin Range(alerts[p])
                /\ alert[p] # i
                /\ i \notin AlertIds(triggered[p])
                /\ \A u \in pending[p] : u.id # i
          /\ i \notin reported
          /\ cycle.at = "returned" => i \notin AlertIds(cycle.triggered)

\* an alert of an unknown route was accepted and is stored, a cycle fetched
\* prices and ran its alert check, and a client read the list of alerts
C32_Witness ==
    /\ UnknownRouteAlerts # {}
    /\ cycle.at = "returned"
    /\ cycle.evaluations = 1
    /\ price_snapshots # <<>>
    /\ AcceptedUnknown
    /\ response.op = "get_alerts"

----------------------------------------------------------------------------
(* Mock mode and the missing API key.                                      *)

\* the environment of the client: USE_MOCK_DATA reads true, or there is no
\* AMADEUS_API_KEY
Offline(client) == client.use_mock \/ client.api_key = ""

\* C33: a client made in mock mode (the default) or without an API key sends
\* nothing when it fetches, neither the token request nor the search; its
\* token cache is never written; and every offer it returns is the price
\* model's, tagged as synthetic
C33_OfflineClientSendsNothing ==
    /\ Offline(amadeus_client) =>
          /\ amadeus_client.access_token = NoToken
          /\ amadeus_client.token_expires_at = NoTime
    /\ (Fetched /\ Offline(response.before)) =>
          /\ response.requests = <<>>
          /\ response.client = response.before
          /\ ~response.raised
          /\ response.offers # <<>>
          /\ \A i \in 1..Len(response.offers) : response.offers[i].source = "mock"
          /\ response.offers =
                generate_mock_data(response.origin, response.destination,
                                   response.departure_date, response.cabin_class,
                                   response.random, response.at)

\* a client without an API key, mock mode switched off, has fetched
C33_Witness ==
    /\ Fetched
    /\ ~response.before.use_mock
    /\ response.before.api_key = ""
    /\ response.offers # <<>>

\* a client in mock mode that has an API key has fetched
C33_WitnessMock ==
    /\ Fetched
    /\ response.before.use_mock
    /\ response.before.api_key # ""
    /\ response.offers # <<>>

\* the client of the default environment has fetched
C33_WitnessDefault ==
    /\ Fetched
    /\ response.before = AmadeusClient(TRUE, "")
    /\ amadeus_client = AmadeusClient(TRUE, "")

====
